---- MODULE Spec2Model ----
(***************************************************************************)
(* AcroForm post-processing of mdforge (packages/core/src/lib/acroform.ts): *)
(* marker extraction and removal, grouping, field materialization,          *)
(* appearance normalization.                                                *)
(*                                                                          *)
(* A URL is a sequence of symbols.  A symbol is a string standing for a run *)
(* of characters that the URL syntax never splits: the marker prefix, one   *)
(* delimiter ("?", "&", "=", "#", "/"), one percent escape, or a run of     *)
(* unreserved characters.  The text of a URL is the concatenation of its    *)
(* symbols.                                                                 *)
(***************************************************************************)
EXTENDS Integers, Sequences, FiniteSets, TLC

\* ------------------------------------------------------------------ bounds
MaxPages == 2
MaxAnnots == 3
MaxNameLen == 2
MaxValueLen == 1

\* ------------------------------------------------------- sequence helpers
Range(s) == {s[n] : n \in DOMAIN s}

RECURSIVE Concat(_)
\* String(...) of a symbol sequence: the symbols joined.
Concat(s) == IF s = <<>> THEN "" ELSE Head(s) \o Concat(Tail(s))

RECURSIVE IndexOf(_, _, _)
\* Position of the first occurrence of one of `delims` in s at or after n, or 0.
IndexOf(s, delims, n) ==
    IF n > Len(s) THEN 0
    ELSE IF s[n] \in delims THEN n
    ELSE IndexOf(s, delims, n + 1)

RECURSIVE Split(_, _)
\* s.split(d): the pieces of s between occurrences of symbol d.
Split(s, d) ==
    LET k == IndexOf(s, {d}, 1)
    IN  IF k = 0 THEN <<s>>
        ELSE <<SubSeq(s, 1, k - 1)>> \o Split(SubSeq(s, k + 1, Len(s)), d)

RemoveAt(s, n) == SubSeq(s, 1, n - 1) \o SubSeq(s, n + 1, Len(s))

\* ------------------------------------------------------------ marker URLs
MARKER_URL_PREFIX == "https://mdforge.marker/"

\* Percent escapes that decode, and what they decode to.
Escapes == [e \in {"%20", "%5F", "%2E", "%2F", "%25", "%2B", "%26", "%3D"} |->
              CASE e = "%20" -> " " [] e = "%5F" -> "_" [] e = "%2E" -> "."
                [] e = "%2F" -> "/" [] e = "%25" -> "%" [] e = "%2B" -> "+"
                [] e = "%26" -> "&" [] e = "%3D" -> "="]

\* A percent sign not followed by two hex digits.
BadEscape == "%"

NoValue == "<none>"

\* decodeURIComponent: throws URIError on a malformed escape.
decodeURIComponentThrows(s) == BadEscape \in Range(s)
decodeURIComponent(s) ==
    Concat([n \in DOMAIN s |-> IF s[n] \in DOMAIN Escapes THEN Escapes[s[n]] ELSE s[n]])

\* application/x-www-form-urlencoded decoding, as URLSearchParams does it:
\* "+" is a space, a malformed escape is kept as it is.
formDecode(s) ==
    Concat([n \in DOMAIN s |->
              IF s[n] \in DOMAIN Escapes THEN Escapes[s[n]]
              ELSE IF s[n] = "+" THEN " " ELSE s[n]])

\* new URL(url).pathname for a URL that starts with the prefix: the symbols
\* between the prefix and the first "?" or "#", with "." and ".." segments
\* resolved.  The leading "/" belongs to the prefix.
RawPath(url) ==
    LET k == IndexOf(url, {"?", "#"}, 2)
    IN  IF k = 0 THEN SubSeq(url, 2, Len(url)) ELSE SubSeq(url, 2, k - 1)

IsSingleDot(seg) == seg \in {<<".">>, <<"%2E">>}
IsDoubleDot(seg) == Len(seg) = 2 /\ IsSingleDot(<<seg[1]>>) /\ IsSingleDot(<<seg[2]>>)

RECURSIVE ResolveDots(_, _)
\* The URL parser's path state: segs still to read, out the segments kept.
ResolveDots(segs, out) ==
    IF segs = <<>> THEN out
    ELSE LET seg == Head(segs)
             last == Len(segs) = 1
         IN  IF IsDoubleDot(seg)
             THEN ResolveDots(Tail(segs),
                      (IF out = <<>> THEN out ELSE SubSeq(out, 1, Len(out) - 1))
                      \o (IF last THEN << <<>> >> ELSE <<>>))
             ELSE IF IsSingleDot(seg)
             THEN ResolveDots(Tail(segs), out \o (IF last THEN << <<>> >> ELSE <<>>))
             ELSE ResolveDots(Tail(segs), Append(out, seg))

RECURSIVE Join(_, _)
Join(segs, d) ==
    IF segs = <<>> THEN <<>>
    ELSE IF Len(segs) = 1 THEN Head(segs)
    ELSE Head(segs) \o <<d>> \o Join(Tail(segs), d)

\* pathname.slice(1)
pathname(url) == Join(ResolveDots(Split(RawPath(url), "/"), <<>>), "/")

\* The query of the URL: between the first "?" and the first "#".
Query(url) ==
    LET q == IndexOf(url, {"?", "#"}, 2)
    IN  IF q = 0 \/ url[q] = "#" THEN <<>>
        ELSE LET h == IndexOf(url, {"#"}, q + 1)
             IN  SubSeq(url, q + 1, IF h = 0 THEN Len(url) ELSE h - 1)

\* One "key=value" piece of the query as <<key, value>>, both decoded.
Param(p) ==
    LET e == IndexOf(p, {"="}, 1)
    IN  IF e = 0 THEN <<formDecode(p), "">>
        ELSE <<formDecode(SubSeq(p, 1, e - 1)), formDecode(SubSeq(p, e + 1, Len(p)))>>

RECURSIVE FirstParam(_, _)
FirstParam(params, key) ==
    IF params = <<>> THEN NoValue
    ELSE IF Head(params) # <<>> /\ Param(Head(params))[1] = key
         THEN Param(Head(params))[2]
    ELSE FirstParam(Tail(params), key)

\* urlObj.searchParams.get(key): NoValue stands for null.
searchParamsGet(url, key) == FirstParam(Split(Query(url), "&"), key)

NoMarker == [ok |-> FALSE, name |-> "", type |-> "", value |-> NoValue]

\* A decoding that takes a marker without type for a text field.
parseMarkerUrlLenient(url) ==
    IF url = <<>> \/ Head(url) # MARKER_URL_PREFIX THEN NoMarker
    ELSE IF decodeURIComponentThrows(pathname(url)) THEN NoMarker
    ELSE LET name == decodeURIComponent(pathname(url))
             type == searchParamsGet(url, "type")
             v == searchParamsGet(url, "value")
         IN  IF name = "" THEN NoMarker
             ELSE [ok |-> TRUE, name |-> name,
                   type |-> IF type \in {NoValue, ""} THEN "text" ELSE type,
                   value |-> IF v = "" THEN NoValue ELSE v]

\* parseMarkerUrl: ok = FALSE stands for null.
parseMarkerUrl(url) ==
    IF url = <<>> \/ Head(url) # MARKER_URL_PREFIX THEN NoMarker
    ELSE IF decodeURIComponentThrows(pathname(url)) THEN NoMarker
    ELSE LET name == decodeURIComponent(pathname(url))
             type == searchParamsGet(url, "type")
             v == searchParamsGet(url, "value")
             value == IF v = "" THEN NoValue ELSE v
         IN  IF name = "" \/ type \in {NoValue, ""} THEN NoMarker
             ELSE [ok |-> TRUE, name |-> name, type |-> type, value |-> value]

\* --------------------------------------------------------------- documents
\* An annotation dictionary of a page.  id is the identity of the object (not
\* read by the program).  action: whether /A resolves to a dictionary.
\* uriEnc: how /URI is written ("lit" a literal string, "hex" a hex string,
\* "absent" no /URI).  rect.kind: "array", "absent" or "other".
Annot(subtype, action, uriEnc, uri, rect) ==
    [id |-> 0, subtype |-> subtype, action |-> action, uriEnc |-> uriEnc,
     uri |-> uri, rect |-> rect]

RectArray(nums) == [kind |-> "array", nums |-> nums]
NoRect == [kind |-> "absent", nums |-> <<>>]

\* The marker URL of a field, as documented for parseMarkerUrl.
MarkerUrl(name, type, value) ==
    <<MARKER_URL_PREFIX>> \o name \o <<"?", "type", "=", type>>
        \o (IF value = <<>> THEN <<>> ELSE <<"&", "value", "=">> \o value)

\* encodeURIComponent of a string given as its characters: every character
\* but the unreserved ones becomes its percent escape.
encodeURIComponent(chars) ==
    [n \in DOMAIN chars |->
        IF \E e \in DOMAIN Escapes : Escapes[e] = chars[n] /\ chars[n] \notin {"_", "."}
        THEN CHOOSE e \in DOMAIN Escapes : Escapes[e] = chars[n]
        ELSE chars[n]]

\* The marker URL the encoder builds for a form control: the prefix, the
\* percent-encoded name, the type, and the percent-encoded value if any.
encodeMarkerUrl(f) ==
    MarkerUrl(encodeURIComponent(f.name), f.type,
              IF f.value = <<>> THEN <<>> ELSE encodeURIComponent(f.value))

MarkerLink(name, type, value, nums) ==
    Annot("Link", "dict", "lit", MarkerUrl(name, type, value), RectArray(nums))

Wide == <<100, 700, 300, 720>>
Tall == <<10, 20, 30, 60>>
Square == <<50, 50, 62, 62>>

\* uriObj.toString(): a literal string prints in parentheses, a hex string
\* in angle brackets with its bytes as hex digits.
Hex(sym) == "hex:" \o sym
uriToString(a) ==
    IF a.uriEnc = "lit" THEN <<"(">> \o a.uri \o <<")">>
    ELSE <<"<">> \o [n \in DOMAIN a.uri |-> Hex(a.uri[n])] \o <<">">>

\* Lines 106-109: strip one pair of enclosing parentheses.
urlOf(a) ==
    LET urlRaw == uriToString(a)
    IN  IF Head(urlRaw) = "(" /\ urlRaw[Len(urlRaw)] = ")"
        THEN SubSeq(urlRaw, 2, Len(urlRaw) - 1)
        ELSE urlRaw

\* The chain of `continue`s of the scan loop up to parseMarkerUrl (87-113).
markerInfo(a) ==
    IF a.subtype # "Link" \/ a.action # "dict" \/ a.uriEnc = "absent" THEN NoMarker
    ELSE parseMarkerUrl(urlOf(a))

\* A check that takes any array of four or more entries.
rectOkAtLeastFour(a) == a.rect.kind = "array" /\ Len(a.rect.nums) >= 4

\* Lines 116-127: the rectangle must be an array of exactly four entries.
rectOk(a) == a.rect.kind = "array" /\ Len(a.rect.nums) = 4

\* The annotation is recorded and removed (it reaches fields.push).
isMatch(a) == markerInfo(a).ok /\ rectOk(a)

\* A decoding that takes the upper-right corner for the size.
FieldPositionCorner(a, pIdx) ==
    [name |-> markerInfo(a).name, type |-> markerInfo(a).type,
     x |-> a.rect.nums[1], y |-> a.rect.nums[2],
     width |-> a.rect.nums[3], height |-> a.rect.nums[4],
     pageIndex |-> pIdx, value |-> markerInfo(a).value, src |-> a.id]

\* Lines 129-138.  src is the identity of the annotation the position was
\* read from (bookkeeping, not a member of FieldPosition).
FieldPosition(a, pIdx) ==
    LET info == markerInfo(a)
        llx == a.rect.nums[1]
        lly == a.rect.nums[2]
        urx == a.rect.nums[3]
        ury == a.rect.nums[4]
    IN  [name |-> info.name, type |-> info.type,
         x |-> llx, y |-> lly, width |-> urx - llx, height |-> ury - lly,
         pageIndex |-> pIdx, value |-> info.value, src |-> a.id]

\* ------------------------------------------------------------------ inputs
\* Annotations of the extraction runs: two markers, a real hyperlink, a link
\* with the prefix that does not decode (no type), a marker without /Rect.
ExtractAnnots ==
    { MarkerLink(<<"name">>, "text", <<>>, Wide),
      MarkerLink(<<"g">>, "radio", <<"v">>, Tall),
      Annot("Link", "dict", "lit", <<"https://example.com/", "doc">>, RectArray(Wide)),
      Annot("Link", "dict", "lit", <<MARKER_URL_PREFIX, "name">>, RectArray(Wide)),
      Annot("Link", "dict", "lit", MarkerUrl(<<"name">>, "text", <<>>), NoRect) }

\* Markers of the checkbox runs: members of groups "s" and "s_k", a
\* standalone checkbox and a radio group whose name is a member's field name.
FormAnnots ==
    { MarkerLink(<<"s_k">>, "checkbox", <<>>, Tall),
      MarkerLink(<<"s">>, "checkbox", <<"k">>, Wide),
      MarkerLink(<<"s">>, "checkbox", <<"k_w">>, Square),
      MarkerLink(<<"s_k">>, "checkbox", <<"w">>, Tall),
      MarkerLink(<<"s_k">>, "radio", <<"v">>, Wide) }

\* Markers of the grouping runs: one name, every way to a bucket; the third
\* carries a value parameter that is empty.
GroupAnnots ==
    { MarkerLink(<<"s">>, "text", <<>>, Wide),
      MarkerLink(<<"s">>, "checkbox", <<>>, Tall),
      Annot("Link", "dict", "lit",
            <<MARKER_URL_PREFIX, "s", "?", "type", "=", "checkbox", "&", "value", "=">>,
            RectArray(Square)),
      MarkerLink(<<"s">>, "checkbox", <<"k">>, Wide),
      MarkerLink(<<"s">>, "radio", <<"v">>, Tall) }

\* Markers of the radio runs: groups "g" and "h", a text field named "g".
RadioAnnots ==
    { MarkerLink(<<"g">>, "text", <<>>, Wide),
      MarkerLink(<<"g">>, "radio", <<"v">>, Tall),
      MarkerLink(<<"g">>, "radio", <<>>, Wide),
      MarkerLink(<<"h">>, "radio", <<"v">>, Square),
      MarkerLink(<<"s">>, "checkbox", <<"k">>, Tall) }

\* Markers of the runs over the five field types, with distinct names.
KindAnnots ==
    { MarkerLink(<<"a">>, "text", <<>>, Wide),
      MarkerLink(<<"b">>, "textarea", <<>>, Tall),
      MarkerLink(<<"c">>, "select", <<>>, Wide),
      MarkerLink(<<"d">>, "checkbox", <<>>, Tall),
      MarkerLink(<<"e">>, "radio", <<"v">>, Wide) }

\* Markers of the select runs: two selects and a text field named as one.
SelectAnnots ==
    { MarkerLink(<<"c">>, "select", <<>>, Wide),
      MarkerLink(<<"d">>, "select", <<>>, Tall),
      MarkerLink(<<"c">>, "text", <<>>, Square) }

\* Markers of the normalizer runs: two buttons of a radio group, a text
\* field, a standalone checkbox and a checkbox of a group.
NormalizeAnnots ==
    { MarkerLink(<<"e">>, "radio", <<"v">>, Wide),
      MarkerLink(<<"e">>, "radio", <<"w">>, Tall),
      MarkerLink(<<"a">>, "text", <<>>, Tall),
      MarkerLink(<<"d">>, "checkbox", <<>>, Square),
      MarkerLink(<<"s">>, "checkbox", <<"k">>, Wide) }

\* Annotations of the non-match runs: a marker, and one annotation for every
\* way out of the scan loop before the rectangle is read: a note that is no
\* Link, a Link without /A, a Link whose action has no /URI, a hyperlink, and
\* links with the prefix that have no name, no type, a malformed escape.
SkipAnnots ==
    { MarkerLink(<<"name">>, "text", <<>>, Wide),
      Annot("Text", "dict", "lit", MarkerUrl(<<"name">>, "text", <<>>), RectArray(Wide)),
      Annot("Link", "absent", "absent", <<>>, RectArray(Tall)),
      Annot("Link", "dict", "absent", <<>>, RectArray(Tall)),
      Annot("Link", "dict", "lit", <<"https://example.com/", "doc">>, RectArray(Wide)),
      Annot("Link", "dict", "lit", MarkerUrl(<<>>, "text", <<>>), RectArray(Wide)),
      Annot("Link", "dict", "lit", <<MARKER_URL_PREFIX, "name", "?", "value", "=", "v">>,
            RectArray(Square)),
      Annot("Link", "dict", "lit", MarkerUrl(<<"na", BadEscape, "me">>, "text", <<>>),
            RectArray(Tall)) }

\* Annotations of the error runs: a text field and a checkbox of one name
\* (the second to be created collides), a link with the prefix and no type,
\* and one with a malformed escape in its name.
ErrorAnnots ==
    { MarkerLink(<<"a">>, "text", <<>>, Wide),
      MarkerLink(<<"a">>, "checkbox", <<>>, Tall),
      Annot("Link", "dict", "lit", <<MARKER_URL_PREFIX, "a">>, RectArray(Wide)),
      Annot("Link", "dict", "lit", MarkerUrl(<<BadEscape, "a">>, "text", <<>>),
            RectArray(Tall)) }

\* Annotations of the type runs: markers of three of the five types and
\* markers whose type parameter is another string.
TypeAnnots ==
    { MarkerLink(<<"a">>, "text", <<>>, Wide),
      MarkerLink(<<"c">>, "select", <<>>, Tall),
      MarkerLink(<<"e">>, "radio", <<"v">>, Square),
      MarkerLink(<<"x">>, "date", <<>>, Wide),
      MarkerLink(<<"y">>, "Text", <<>>, Tall) }

\* The form controls of the wire-format runs: a name of up to MaxNameLen
\* characters, one of the five types, no value or one of up to MaxValueLen
\* characters.  Names and values are given as their characters.
WireFields ==
    [name : UNION {[1..n -> {"a", ".", "/", "%", " "}] : n \in 1..MaxNameLen},
     type : {"text", "textarea", "select", "checkbox", "radio"},
     value : UNION {[1..n -> {"v", "+", "&", "="}] : n \in 0..MaxValueLen}]

\* The one-page documents rendered from one form control: its marker link
\* is the page's only annotation.  rendered keeps the control (bookkeeping).
WireDocs ==
    { [ok |-> TRUE,
       rendered |-> f,
       pages |-> <<[hasAnnots |-> TRUE,
                    annots |-> <<[Annot("Link", "dict", "lit", encodeMarkerUrl(f),
                                        RectArray(Wide)) EXCEPT !.id = 101]>>]>>] :
        f \in WireFields }

\* Annotations of the lifecycle runs: a marker for each of the three
\* buckets and a hyperlink.
LifeAnnots ==
    { MarkerLink(<<"a">>, "text", <<>>, Wide),
      MarkerLink(<<"g">>, "radio", <<"v">>, Tall),
      MarkerLink(<<"s">>, "checkbox", <<"k">>, Square),
      Annot("Link", "dict", "lit", <<"https://example.com/", "doc">>, RectArray(Wide)) }

\* Markers of the name-reuse runs: simple fields of several kinds under one
\* name, a marker of that name whose type is none of the five, a radio
\* option of that name and a checkbox-group member.
ReuseAnnots ==
    { MarkerLink(<<"a">>, "text", <<>>, Wide),
      MarkerLink(<<"a">>, "textarea", <<>>, Tall),
      MarkerLink(<<"a">>, "select", <<>>, Square),
      MarkerLink(<<"a">>, "date", <<>>, Wide),
      MarkerLink(<<"a">>, "radio", <<"v">>, Tall),
      MarkerLink(<<"s">>, "checkbox", <<"k">>, Square) }

\* Annotations of the rectangle runs: links whose URI is a valid marker, one
\* with a Rect of four numbers, one without Rect, one whose Rect is not an
\* array object, one with three numbers and one with five.
RectAnnots ==
    { MarkerLink(<<"a">>, "text", <<>>, Wide),
      Annot("Link", "dict", "lit", MarkerUrl(<<"b">>, "text", <<>>), NoRect),
      Annot("Link", "dict", "lit", MarkerUrl(<<"c">>, "radio", <<"v">>),
            [kind |-> "other", nums |-> <<>>]),
      Annot("Link", "dict", "lit", MarkerUrl(<<"d">>, "checkbox", <<"k">>),
            RectArray(<<100, 700, 300>>)),
      Annot("Link", "dict", "lit", MarkerUrl(<<"e">>, "text", <<>>),
            RectArray(<<100, 700, 300, 720, 0>>)) }

\* Markers of the option-value runs: members of the radio group "g" with a
\* value, without value parameter and with an empty one, a member of group
\* "h" without value, and a text field.
OptionAnnots ==
    { MarkerLink(<<"g">>, "radio", <<"v">>, Tall),
      MarkerLink(<<"g">>, "radio", <<>>, Wide),
      Annot("Link", "dict", "lit",
            <<MARKER_URL_PREFIX, "g", "?", "type", "=", "radio", "&", "value", "=">>,
            RectArray(Square)),
      MarkerLink(<<"h">>, "radio", <<>>, Tall),
      MarkerLink(<<"t">>, "text", <<>>, Wide) }

\* Markers of the widget-shape runs: every kind of field, under distinct
\* names, on rectangles that are not square.
ShapeAnnots ==
    { MarkerLink(<<"a">>, "text", <<>>, Tall),
      MarkerLink(<<"b">>, "textarea", <<>>, Wide),
      MarkerLink(<<"c">>, "select", <<>>, Tall),
      MarkerLink(<<"d">>, "checkbox", <<>>, Wide),
      MarkerLink(<<"s">>, "checkbox", <<"k">>, Tall),
      MarkerLink(<<"e">>, "radio", <<"v">>, Wide) }

\* A field of the AcroForm: its name, its kind (text, dropdown, checkbox,
\* radio), the multi-line flag, the choice list and the widgets.
Field(name, kind, multiline, options, widgets) ==
    [name |-> name, kind |-> kind, multiline |-> multiline,
     options |-> options, widgets |-> widgets]

\* The AcroForm of the document: whether the catalog has one, and its fields.
\* The documents handed to addAcroFormFields are print output and have none.
NoForm == [created |-> FALSE, fields |-> <<>>]

\* Where page p's annotations lie in a flat list cut at the positions in cuts.
PageStart(cuts, p) == IF p = 1 THEN 1 ELSE cuts[p - 1] + 1
PageEnd(cuts, n, p) == IF p > Len(cuts) THEN n ELSE cuts[p]

\* A document of P pages holding the annotations of flat, cut into pages at
\* cuts; with bare, the pages without annotations have no /Annots entry.
\* Identities are made distinct.
MakeDoc(flat, cuts, P, bare) ==
    [ok |-> TRUE,
     pages |-> [p \in 1..P |->
        LET lo == PageStart(cuts, p)
            hi == PageEnd(cuts, Len(flat), p)
        IN  [hasAnnots |-> hi >= lo \/ ~bare,
             annots |-> [n \in 1..(hi - lo + 1) |->
                            [flat[lo + n - 1] EXCEPT !.id = 100 * p + n]]]]]

Monotone(cuts) == \A n \in DOMAIN cuts : n > 1 => cuts[n - 1] <= cuts[n]

FlatSeqs(U) == UNION {[1..n -> U] : n \in 0..MaxAnnots}

\* Every document of at most MaxPages pages and MaxAnnots annotations over U.
Docs(U, allowBare) ==
    LET Cuts == {c \in UNION {[1..q -> 0..MaxAnnots] : q \in 0..(MaxPages - 1)} :
                    Monotone(c)}
        Fits(flat, cuts) == \A n \in DOMAIN cuts : cuts[n] <= Len(flat)
    IN  { MakeDoc(t[1], t[2], Len(t[2]) + 1, t[3]) :
            t \in { u \in FlatSeqs(U) \X Cuts \X (IF allowBare THEN BOOLEAN ELSE {FALSE}) :
                      Fits(u[1], u[2]) } }
         \cup {[ok |-> TRUE, pages |-> <<>>]}

\* ------------------------------------------------------------------- state
VARIABLES
    input,          \* pdfBuffer: the document handed to addAcroFormFields
    config,         \* config.selectOptions: field name -> options
    pc,             \* where addAcroFormFields stands
    pages,          \* pdfDoc: the pages and their annotation arrays
    form,           \* pdfDoc's AcroForm: created flag and fields
    fields,         \* FieldPosition[] of extractAndRemoveMarkers
    pageIndex,      \* loop variable of the page loop (0-based)
    j,              \* loop variable of the scan loop (0-based)
    toRemove,       \* indices recorded for the current page (0-based)
    i,              \* loop variable of the removal loop (0-based)
    simpleFields,   \* the three buckets
    radioGroups,
    checkboxGroups,
    k,              \* position in the bucket being materialized (1-based)
    m,              \* position in the current checkbox group (1-based)
    output,         \* "none", or "bytes" once the call has returned pdfDoc.save()
    removed,        \* history: every annots.remove(idx) done, in order
    other,          \* a second addAcroFormFields call, suspended at an await
    browserPromise, \* generate-output.ts: the launch the module's promise is of (0: unset)
    launches,       \* every puppeteer.launch so far: "pending", "open", "failed", "closed"
    calls,          \* the generateOutput and closeBrowser calls of the process
    browser,        \* conversion.ts (desktop): the module's browser handle
    browsers,       \* desktop: the state of every browser launched so far
    tasks           \* desktop: the getBrowser / closeBrowserInstance calls

\* The locals of one addAcroFormFields call.
callVars == <<input, config, pc, pages, form, fields, pageIndex, j, toRemove, i,
              simpleFields, radioGroups, checkboxGroups, k, m, output, removed>>

\* What a step of an addAcroFormFields call does not touch.
elsewhere == <<other, browserPromise, launches, calls, browser, browsers, tasks>>

vars == <<callVars, elsewhere>>

\* No second call.
NoCall == [id |-> 0]

\* No generateOutput call in the process, and no desktop conversion.
NoRenderer == browserPromise = 0 /\ launches = <<>> /\ calls = <<>>
NoDesktop == browser = 0 /\ browsers = <<>> /\ tasks = <<>>

Unparseable == [ok |-> FALSE, pages |-> <<>>]

\* selectOptions maps: field name -> options (a function on the names it holds).
NoSelectOptions == [n \in {} |-> <<>>]

InitPipeline(docs, configs) ==
    /\ input \in docs \cup {Unparseable}
    /\ config \in configs
    /\ pc = "load"
    /\ pages = <<>>
    /\ form = NoForm
    /\ fields = <<>>
    /\ pageIndex = 0
    /\ j = 0
    /\ toRemove = <<>>
    /\ i = 0
    /\ simpleFields = <<>>
    /\ radioGroups = <<>>
    /\ checkboxGroups = <<>>
    /\ k = 1
    /\ m = 1
    /\ output = "none"
    /\ removed = <<>>

\* One addAcroFormFields call and nothing else in the process.
InitWith(docs, configs) ==
    /\ InitPipeline(docs, configs)
    /\ other = NoCall
    /\ NoRenderer
    /\ NoDesktop

Init == InitWith(Docs(ExtractAnnots, TRUE), {NoSelectOptions})
InitForm == InitWith(Docs(FormAnnots, FALSE), {NoSelectOptions})
InitGroup == InitWith(Docs(GroupAnnots, FALSE), {NoSelectOptions})
InitRadio == InitWith(Docs(RadioAnnots, FALSE), {NoSelectOptions})
InitKinds == InitWith(Docs(KindAnnots, FALSE), {NoSelectOptions})

\* The selectOptions maps of the select runs: none, an entry for one name,
\* for the other, for both (an empty list and a list with a repeated option).
SelectConfigs ==
    { NoSelectOptions,
      [n \in {"c"} |-> <<"x", "y">>],
      [n \in {"d"} |-> <<"y">>],
      [n \in {"c", "d"} |-> IF n = "c" THEN <<>> ELSE <<"x", "x">>] }

InitSelect == InitWith(Docs(SelectAnnots, FALSE), SelectConfigs)

InitNormalize == InitWith(Docs(NormalizeAnnots, FALSE), {NoSelectOptions})
InitSkip == InitWith(Docs(SkipAnnots, TRUE), {NoSelectOptions})
InitErrors == InitWith(Docs(ErrorAnnots, FALSE), {NoSelectOptions})
InitTypes == InitWith(Docs(TypeAnnots, FALSE), {NoSelectOptions})
InitWire == InitWith(WireDocs, {NoSelectOptions})
InitLife == InitWith(Docs(LifeAnnots, FALSE), {NoSelectOptions})
InitRect == InitWith(Docs(RectAnnots, FALSE), {NoSelectOptions})
InitOption == InitWith(Docs(OptionAnnots, FALSE), {NoSelectOptions})
InitShape == InitWith(Docs(ShapeAnnots, FALSE), {NoSelectOptions})
InitReuse == InitWith(Docs(ReuseAnnots, FALSE), {NoSelectOptions})

\* The annotation array of the page the loops are on.
annots == pages[pageIndex + 1].annots

\* ----------------------------------------------------------------- actions
\* A loader that takes bytes that are no document for an empty document.
loadThrowsNever(bytes) == FALSE

\* Line 172: PDFDocument.load throws on bytes that are no document.
loadThrows(bytes) == ~bytes.ok

\* Lines 172-176: a load error ends the call (nothing catches it); a
\* document without pages is saved as it is.
Load ==
    /\ pc = "load"
    /\ IF loadThrows(input)
       THEN pc' = "rejected" /\ UNCHANGED pages
       ELSE /\ pages' = input.pages
            /\ pc' = IF Len(input.pages) = 0 THEN "save" ELSE "page"
    /\ UNCHANGED elsewhere
    /\ UNCHANGED <<input, config, form, fields, pageIndex, j, toRemove, i,
                   simpleFields, radioGroups, checkboxGroups, k, m, output, removed>>

\* Lines 71-82: the head of the page loop.
NextPage ==
    /\ pc = "page"
    /\ IF pageIndex >= Len(pages)
       THEN pc' = "extracted" /\ UNCHANGED <<pageIndex, j, toRemove, i>>
       ELSE IF ~pages[pageIndex + 1].hasAnnots
       THEN pageIndex' = pageIndex + 1 /\ UNCHANGED <<pc, j, toRemove, i>>
       ELSE /\ toRemove' = <<>>
            /\ j' = 0
            /\ i' = -1
            /\ pc' = IF Len(annots) = 0 THEN "remove" ELSE "scan"
            /\ UNCHANGED pageIndex
    /\ UNCHANGED elsewhere
    /\ UNCHANGED <<input, config, pages, form, fields,
                   simpleFields, radioGroups, checkboxGroups, k, m, output, removed>>

\* Lines 84-141: one iteration of the scan loop.
ScanAnnot ==
    /\ pc = "scan"
    /\ LET a == annots[j + 1]
           match == isMatch(a)
           rec == IF match THEN Append(toRemove, j) ELSE toRemove
       IN  /\ fields' = IF match THEN Append(fields, FieldPosition(a, pageIndex))
                        ELSE fields
           /\ toRemove' = rec
           /\ j' = j + 1
           /\ IF j + 1 < Len(annots)
              THEN UNCHANGED <<pc, i>>
              ELSE pc' = "remove" /\ i' = Len(rec) - 1
    /\ UNCHANGED elsewhere
    /\ UNCHANGED <<input, config, pages, form, pageIndex,
                   simpleFields, radioGroups, checkboxGroups, k, m, output, removed>>

\* A removal that takes the index for a 1-based position.
removeAtOffByOne(arr, idx) == RemoveAt(arr, idx)

\* annots.remove(idx): idx is 0-based.
removeAt(arr, idx) == RemoveAt(arr, idx + 1)

\* A removal loop that walks toRemove from its first entry to its last.
removalIndexAscending(recorded, n) == recorded[Len(recorded) - n]

\* toRemove[i] of the removal loop, i running from toRemove.length - 1 to 0.
removalIndex(recorded, n) == recorded[n + 1]

\* Lines 144-149: one iteration of the removal loop, then the next page.
RemoveMarker ==
    /\ pc = "remove"
    /\ IF i >= 0
       THEN LET idx == removalIndex(toRemove, i)
            IN  /\ pages' = [pages EXCEPT ![pageIndex + 1].annots = removeAt(@, idx)]
                /\ removed' = Append(removed,
                       [page |-> pageIndex, idx |-> idx,
                        id |-> IF idx < Len(annots) THEN annots[idx + 1].id ELSE 0])
                /\ i' = i - 1
                /\ UNCHANGED <<pc, pageIndex>>
       ELSE /\ pageIndex' = pageIndex + 1
            /\ pc' = "page"
            /\ UNCHANGED <<pages, removed, i>>
    /\ UNCHANGED elsewhere
    /\ UNCHANGED <<input, config, form, fields, j, toRemove,
                   simpleFields, radioGroups, checkboxGroups, k, m, output>>

\* ---------------------------------------------------------------- grouping
\* field.value is truthy: parseMarkerUrl turns an empty value into undefined.
hasValue(f) == f.value # NoValue

\* A grouping that sends every checkbox to a checkbox group.
bucketOfByType(f) ==
    IF f.type = "radio" THEN "radio"
    ELSE IF f.type = "checkbox" THEN "checkbox"
    ELSE "simple"

\* Lines 192-203: the bucket a position goes to.
bucketOf(f) ==
    IF f.type = "radio" THEN "radio"
    ELSE IF f.type = "checkbox" /\ hasValue(f) THEN "checkbox"
    ELSE "simple"

\* A grouping that starts a new group for every position.
addToGroupAlwaysNew(groups, f) == Append(groups, [name |-> f.name, options |-> <<f>>])

\* Map.get(name) || [], push, Map.set(name, group): insertion order is kept.
addToGroup(groups, f) ==
    IF \E n \in DOMAIN groups : groups[n].name = f.name
    THEN [n \in DOMAIN groups |->
            IF groups[n].name = f.name
            THEN [groups[n] EXCEPT !.options = Append(@, f)]
            ELSE groups[n]]
    ELSE Append(groups, [name |-> f.name, options |-> <<f>>])

RECURSIVE partition(_, _)
\* Lines 191-204: the loop over fields; acc holds the three buckets.
partition(fs, acc) ==
    IF fs = <<>> THEN acc
    ELSE LET f == Head(fs)
             b == bucketOf(f)
         IN  partition(Tail(fs),
                [simple |-> IF b = "simple" THEN Append(acc.simple, f) ELSE acc.simple,
                 radio |-> IF b = "radio" THEN addToGroup(acc.radio, f) ELSE acc.radio,
                 checkbox |-> IF b = "checkbox" THEN addToGroup(acc.checkbox, f)
                              ELSE acc.checkbox])

\* A pipeline that goes on to getForm() whatever was extracted.
shortCircuitNever(fs) == FALSE

\* Line 180: fields.length === 0.
shortCircuit(fs) == Len(fs) = 0

\* Lines 180-204: short-circuit on no marker, else getForm() and grouping.
Group ==
    /\ pc = "extracted"
    /\ IF shortCircuit(fields)
       THEN /\ pc' = "save"
            /\ UNCHANGED <<form, simpleFields, radioGroups, checkboxGroups>>
       ELSE LET b == partition(fields, [simple |-> <<>>, radio |-> <<>>, checkbox |-> <<>>])
            IN  /\ form' = [form EXCEPT !.created = TRUE]
                /\ simpleFields' = b.simple
                /\ radioGroups' = b.radio
                /\ checkboxGroups' = b.checkbox
                /\ pc' = "simple"
    /\ UNCHANGED elsewhere
    /\ UNCHANGED <<input, config, pages, fields, pageIndex, j, toRemove, i,
                   k, m, output, removed>>

\* --------------------------------------------------------- materialization
fieldNames(fm) == {fm.fields[n].name : n \in DOMAIN fm.fields}

\* form.create*(name) throws when a field of that name exists.
createThrows(fm, name) == name \in fieldNames(fm)

widgetCount(fm) ==
    LET RECURSIVE Sum(_)
        Sum(fs) == IF fs = <<>> THEN 0 ELSE Len(Head(fs).widgets) + Sum(Tail(fs))
    IN  Sum(fm.fields)

Min(a, b) == IF a <= b THEN a ELSE b

\* The widget addToPage / addOptionToPage makes from the options it is given.
\* mk: how the widget holds /MK ("direct" a dictionary in the widget's own
\* dictionary, as the library writes it; "indirect" a reference to one;
\* "absent").  bg: whether that /MK holds /BG.
Widget(f, x, y, width, height, bg, option) ==
    [src |-> f.src, page |-> f.pageIndex, x |-> x, y |-> y,
     width |-> width, height |-> height, mk |-> "direct", bg |-> bg, option |-> option]

\* A placement that converts CSS pixels to points (scale 72 / 96).
fullWidgetScaled(f) ==
    Widget(f, (f.x * 3) \div 4, (f.y * 3) \div 4, (f.width * 3) \div 4,
           (f.height * 3) \div 4, FALSE, NoValue)

\* Lines 214-221, 231-238: the marker's rectangle as it is.
fullWidget(f) == Widget(f, f.x, f.y, f.width, f.height, FALSE, NoValue)

\* A checkbox widget that fills the marker's rectangle.
squareWidgetFull(f) == Widget(f, f.x, f.y, f.width, f.height, FALSE, NoValue)

\* Lines 240-249, 286-295: size = Math.min(width, height).
squareWidget(f) ==
    LET size == Min(f.width, f.height)
    IN  Widget(f, f.x, f.y, size, size, FALSE, NoValue)

\* An option that is the member's value whether or not it has one.
radioWidgetValueOnly(f) ==
    LET size == Min(f.width, f.height)
    IN  Widget(f, f.x, f.y, size, size, TRUE, f.value)

\* Lines 264-272: the option is opt.value || opt.name; the library gives a
\* radio widget a background whatever the caller asks for.
radioWidget(f) ==
    LET size == Min(f.width, f.height)
    IN  Widget(f, f.x, f.y, size, size, TRUE, IF hasValue(f) THEN f.value ELSE f.name)

\* The widget annotation that addToPage puts on the page.
widgetAnnot(w, n) ==
    [id |-> 0 - n, subtype |-> "Widget", action |-> "absent", uriEnc |-> "absent",
     uri |-> <<>>, rect |-> RectArray(<<w.x, w.y, w.x + w.width, w.y + w.height>>)]

RECURSIVE attach(_, _, _)
\* page.node.addAnnot for each widget of ws, numbered from n + 1.
attach(pgs, ws, n) ==
    IF ws = <<>> THEN pgs
    ELSE LET w == Head(ws)
         IN  attach([pgs EXCEPT ![w.page + 1] =
                        [hasAnnots |-> TRUE,
                         annots |-> Append(@.annots, widgetAnnot(w, n + 1))]],
                    Tail(ws), n + 1)

\* A dropdown that is never given options.
selectOptionsNone(cfg, name) == <<>>

\* config.selectOptions?.get(name), with no options when there is none.
selectOptionsOf(cfg, name) == IF name \in DOMAIN cfg THEN cfg[name] ELSE <<>>

\* Lines 212-250: the field a simple position makes, if its type makes one.
makesField(f) == f.type \in {"text", "textarea", "select", "checkbox"}

\* A creation that enables multi-line on every text field.
simpleFieldAllMultiline(f, cfg) ==
    IF f.type \in {"text", "textarea"}
    THEN Field(f.name, "text", TRUE, <<>>, <<fullWidget(f)>>)
    ELSE IF f.type = "select"
    THEN Field(f.name, "dropdown", FALSE, selectOptionsOf(cfg, f.name), <<fullWidget(f)>>)
    ELSE Field(f.name, "checkbox", FALSE, <<>>, <<squareWidget(f)>>)

simpleField(f, cfg) ==
    IF f.type \in {"text", "textarea"}
    THEN Field(f.name, "text", f.type = "textarea", <<>>, <<fullWidget(f)>>)
    ELSE IF f.type = "select"
    THEN Field(f.name, "dropdown", FALSE, selectOptionsOf(cfg, f.name), <<fullWidget(f)>>)
    ELSE Field(f.name, "checkbox", FALSE, <<>>, <<squareWidget(f)>>)

\* Lines 259-273: the group field with one option widget per member.
radioField(g) ==
    Field(g.name, "radio", FALSE, <<>>, [n \in DOMAIN g.options |-> radioWidget(g.options[n])])

\* A naming that gives every member the group's name.
checkboxNameOfGroup(name, value) == name

\* Line 287: the name of a checkbox-group member's field.
checkboxName(name, value) == name \o "_" \o value

\* Lines 286-295.
checkboxField(name, opt) ==
    Field(checkboxName(name, opt.value), "checkbox", FALSE, <<>>, <<squareWidget(opt)>>)

\* A creation that puts the new field in the place of the one of that name.
tryAddReplacing(fm, fld) ==
    IF createThrows(fm, fld.name)
    THEN [fm EXCEPT !.fields = [n \in DOMAIN @ |-> IF @[n].name = fld.name THEN fld ELSE @[n]]]
    ELSE [fm EXCEPT !.fields = Append(@, fld)]

\* try { create; addToPage } catch {}: the field is added unless create throws.
tryAdd(fm, fld) ==
    IF createThrows(fm, fld.name) THEN fm
    ELSE [fm EXCEPT !.fields = Append(@, fld)]

\* A loop body that puts the widgets on their pages whether or not the
\* field was created.
tryAttachAlways(fm, pgs, fld) == attach(pgs, fld.widgets, widgetCount(fm))

tryAttach(fm, pgs, fld) ==
    IF createThrows(fm, fld.name) THEN pgs
    ELSE attach(pgs, fld.widgets, widgetCount(fm))

\* Lines 207-254: one iteration of the loop over simpleFields.
AddSimpleField ==
    /\ pc = "simple"
    /\ IF k <= Len(simpleFields)
       THEN LET f == simpleFields[k]
                fld == simpleField(f, config)
            IN  /\ IF makesField(f)
                   THEN /\ form' = tryAdd(form, fld)
                        /\ pages' = tryAttach(form, pages, fld)
                   ELSE UNCHANGED <<form, pages>>
                /\ k' = k + 1
                /\ UNCHANGED pc
       ELSE pc' = "radio" /\ k' = 1 /\ UNCHANGED <<form, pages>>
    /\ UNCHANGED elsewhere
    /\ UNCHANGED <<input, config, fields, pageIndex, j, toRemove, i,
                   simpleFields, radioGroups, checkboxGroups, m, output, removed>>

\* Lines 257-277: one iteration of the loop over radioGroups.
AddRadioGroup ==
    /\ pc = "radio"
    /\ IF k <= Len(radioGroups)
       THEN LET fld == radioField(radioGroups[k])
            IN  /\ form' = tryAdd(form, fld)
                /\ pages' = tryAttach(form, pages, fld)
                /\ k' = k + 1
                /\ UNCHANGED pc
       ELSE pc' = "checkbox" /\ k' = 1 /\ UNCHANGED <<form, pages>>
    /\ UNCHANGED elsewhere
    /\ UNCHANGED <<input, config, fields, pageIndex, j, toRemove, i,
                   simpleFields, radioGroups, checkboxGroups, m, output, removed>>

\* Lines 280-300: one iteration of the inner loop over a checkbox group.
AddCheckbox ==
    /\ pc = "checkbox"
    /\ IF k <= Len(checkboxGroups)
       THEN LET g == checkboxGroups[k]
                fld == checkboxField(g.name, g.options[m])
            IN  /\ form' = tryAdd(form, fld)
                /\ pages' = tryAttach(form, pages, fld)
                /\ IF m < Len(g.options)
                   THEN m' = m + 1 /\ UNCHANGED k
                   ELSE m' = 1 /\ k' = k + 1
                /\ UNCHANGED pc
       ELSE pc' = "normalize" /\ UNCHANGED <<form, pages, k, m>>
    /\ UNCHANGED elsewhere
    /\ UNCHANGED <<input, config, fields, pageIndex, j, toRemove, i,
                   simpleFields, radioGroups, checkboxGroups, output, removed>>

\* A normalizer that leaves the widgets as they are.
deleteBGNever(w) == w

\* Lines 307-310: widget.dict.get("MK") is the entry as it is written, not
\* looked up; BG is deleted when that entry is a dictionary.
deleteBG(w) == IF w.mk = "direct" THEN [w EXCEPT !.bg = FALSE] ELSE w

\* Lines 304-312: every widget of every field loses its background.
Normalize ==
    /\ pc = "normalize"
    /\ form' = [form EXCEPT !.fields =
                  [n \in DOMAIN @ |->
                     [@[n] EXCEPT !.widgets = [q \in DOMAIN @ |-> deleteBG(@[q])]]]]
    /\ pc' = "save"
    /\ UNCHANGED elsewhere
    /\ UNCHANGED <<input, config, pages, fields, pageIndex, j, toRemove, i,
                   simpleFields, radioGroups, checkboxGroups, k, m, output, removed>>

\* A serialization that does not wait for the normalizer.
SaveBeforeNormalize ==
    /\ pc = "normalize"
    /\ output' = "bytes"
    /\ pc' = "done"
    /\ UNCHANGED elsewhere
    /\ UNCHANGED <<input, config, pages, form, fields, pageIndex, j, toRemove, i,
                   simpleFields, radioGroups, checkboxGroups, k, m, removed>>

\* return pdfDoc.save() (lines 175, 181, 314): pages and form are what is saved.
Save ==
    /\ pc = "save"
    /\ output' = "bytes"
    /\ pc' = "done"
    /\ UNCHANGED elsewhere
    /\ UNCHANGED <<input, config, pages, form, fields, pageIndex, j, toRemove, i,
                   simpleFields, radioGroups, checkboxGroups, k, m, removed>>

Next ==
    \/ Load
    \/ NextPage
    \/ ScanAnnot
    \/ RemoveMarker
    \/ Group
    \/ AddSimpleField
    \/ AddRadioGroup
    \/ AddCheckbox
    \/ Normalize
    \/ Save

Spec == Init /\ [][Next]_vars
SpecForm == InitForm /\ [][Next]_vars
SpecGroup == InitGroup /\ [][Next]_vars
SpecRadio == InitRadio /\ [][Next]_vars
SpecKinds == InitKinds /\ [][Next]_vars
SpecSelect == InitSelect /\ [][Next]_vars
SpecNormalize == InitNormalize /\ [][Next]_vars
SpecSkip == InitSkip /\ [][Next]_vars
SpecErrors == InitErrors /\ [][Next]_vars
SpecTypes == InitTypes /\ [][Next]_vars
SpecWire == InitWire /\ [][Next]_vars
SpecLife == InitLife /\ [][Next]_vars
SpecRect == InitRect /\ [][Next]_vars
SpecOption == InitOption /\ [][Next]_vars
SpecShape == InitShape /\ [][Next]_vars
SpecReuse == InitReuse /\ [][Next]_vars
\* ------------------------------------------------------------- properties
Done == pc = "done"

\* The pipeline is past extractAndRemoveMarkers.
Extracted == pc \in {"extracted", "simple", "radio", "checkbox", "normalize", "save", "done"}
               /\ input.ok /\ Len(input.pages) > 0

\* The annotation of the input that has identity id.
origin(id) == input.pages[id \div 100].annots[id % 100]
originPage(id) == (id \div 100) - 1

\* A Link annotation whose URI starts with the marker prefix.
prefixLink(a) ==
    /\ a.subtype = "Link"
    /\ a.action = "dict"
    /\ a.uriEnc # "absent"
    /\ a.uri # <<>>
    /\ Head(a.uri) = MARKER_URL_PREFIX

allAnnots(pgs) == UNION {Range(pgs[p].annots) : p \in DOMAIN pgs}

NotMatch(a) == ~isMatch(a)
IsOriginal(a) == a.subtype # "Widget"

\* C1 as stated: once the call has returned, no Link annotation whose URI
\* starts with the marker prefix is left on any page.
C1_NoPrefixLinkRemains ==
    Done => \A a \in allAnnots(pages) : ~prefixLink(a)

\* C1 amended: once the call has returned, no Link annotation that decodes as
\* a marker (prefix, non-empty name, a type) and has a four-entry Rect is
\* left on any page.
C1_NoMatchedMarkerRemains ==
    Done => \A a \in allAnnots(pages) : ~isMatch(a)

\* C1 witness: a page held two markers before a hyperlink, and the call returned.
C1_Witness ==
    /\ Done
    /\ \E p \in DOMAIN input.pages :
          /\ Len(input.pages[p].annots) = 3
          /\ isMatch(input.pages[p].annots[1])
          /\ isMatch(input.pages[p].annots[2])
          /\ ~prefixLink(input.pages[p].annots[3])

C3_DeletionProtocol ==
    /\ pc = "scan" => annots = input.pages[pageIndex + 1].annots
    /\ \A n \in DOMAIN removed :
          LET r == removed[n]
              was == input.pages[r.page + 1].annots
          IN  /\ r.page < pageIndex \/ (r.page = pageIndex /\ pc = "remove")
              /\ r.idx < Len(was)
              /\ r.id = was[r.idx + 1].id
              /\ isMatch(was[r.idx + 1])
              /\ (n > 1 /\ removed[n - 1].page = r.page) => removed[n - 1].idx > r.idx

\* C3 witness: two removals done on one page, the removal loop still running.
C3_Witness ==
    /\ pc = "remove"
    /\ Len(removed) >= 2
    /\ removed[Len(removed)].page = pageIndex
    /\ removed[Len(removed) - 1].page = pageIndex
    /\ Len(annots) >= 1

\* C5: a recorded FieldPosition has x = llx, y = lly, width = urx - llx,
\* height = ury - lly of its marker's Rect and the 0-based index of the
\* marker's page; [100, 700, 300, 720] on the first page gives
\* x = 100, y = 700, width = 200, height = 20, page 0.
C5_RectDecoding ==
    \A n \in DOMAIN fields :
        LET f == fields[n]
            r == origin(f.src).rect.nums
        IN  /\ f.x = r[1]
            /\ f.y = r[2]
            /\ f.width = r[3] - r[1]
            /\ f.height = r[4] - r[2]
            /\ f.pageIndex = originPage(f.src)
            /\ (r = <<100, 700, 300, 720>> /\ f.src \div 100 = 1) =>
                  /\ f.x = 100 /\ f.y = 700 /\ f.width = 200 /\ f.height = 20
                  /\ f.pageIndex = 0

\* C5 witness: positions recorded from the first and from the second page.
C5_Witness ==
    /\ Extracted
    /\ \E n1, n2 \in DOMAIN fields :
          /\ fields[n1].pageIndex = 0 /\ origin(fields[n1].src).rect.nums = Wide
          /\ fields[n2].pageIndex = 1 /\ origin(fields[n2].src).rect.nums = Tall

\* C6: when no annotation of the document is matched, the pipeline never
\* enters materialization or normalization, and the call returns with every
\* page as it was, nothing removed and no AcroForm, field or widget.
C6_NoOpOnZeroMarkers ==
    (input.ok /\ \A a \in allAnnots(input.pages) : ~isMatch(a)) =>
        /\ pc \notin {"simple", "radio", "checkbox", "normalize"}
        /\ removed = <<>>
        /\ form = NoForm
        /\ pc \in {"page", "scan", "remove", "extracted", "save", "done"} => pages = input.pages
        /\ Done => output = "bytes"

\* C6 witness: a document with links, none of them matched, was returned.
C6_Witness ==
    /\ Done
    /\ allAnnots(input.pages) # {}
    /\ \E a \in allAnnots(input.pages) : prefixLink(a)
    /\ \A a \in allAnnots(input.pages) : ~isMatch(a)

\* The widgets of the form with the field each belongs to.
allWidgets ==
    UNION {{[field |-> form.fields[q], w |-> form.fields[q].widgets[t]] :
                t \in DOMAIN form.fields[q].widgets} : q \in DOMAIN form.fields}

\* The widget annotation of w lies on the page w names.
onItsPage(w) ==
    \E a \in Range(pages[w.page + 1].annots) :
        /\ a.subtype = "Widget"
        /\ a.rect.nums = <<w.x, w.y, w.x + w.width, w.y + w.height>>

radioNames == {fields[n].name : n \in {q \in DOMAIN fields : fields[q].type = "radio"}}
radioMembers(name) ==
    LET Member(f) == f.type = "radio" /\ f.name = name
    IN  SelectSeq(fields, Member)

fieldsNamed(name) == {q \in DOMAIN form.fields : form.fields[q].name = name}

\* The field is the radio group of `name` with one option widget per member,
\* each made for its member and on its member's page.
isGroupOf(fld, name) ==
    LET members == radioMembers(name)
    IN  /\ fld.kind = "radio"
        /\ Len(fld.widgets) = Len(members)
        /\ \A t \in DOMAIN members :
              /\ fld.widgets[t].src = members[t].src
              /\ fld.widgets[t].page = members[t].pageIndex
              /\ onItsPage(fld.widgets[t])

\* C7 as stated: once the call has returned, every name of a radio position
\* has exactly one field, the radio group of that name with one widget per
\* member on the member's page.
C7_OneRadioGroupPerName ==
    Done => \A name \in radioNames :
                /\ Cardinality(fieldsNamed(name)) = 1
                /\ \A q \in fieldsNamed(name) : isGroupOf(form.fields[q], name)

\* A simple position of that name makes a field before the radio groups.
takenBySimple(name) ==
    \E n \in DOMAIN fields :
        bucketOf(fields[n]) = "simple" /\ makesField(fields[n]) /\ fields[n].name = name

\* C7 amended: once the call has returned, a radio name has at most one
\* field.  When no field of that name exists as the group is created (no
\* simple field has the name), it is the radio group with one widget per
\* member on the member's page; otherwise the whole group is skipped: no
\* radio field of that name and no widget for any member.
C7_RadioGrouping ==
    Done => \A name \in radioNames :
                /\ Cardinality(fieldsNamed(name)) = 1
                /\ IF takenBySimple(name)
                   THEN /\ \A q \in fieldsNamed(name) : form.fields[q].kind # "radio"
                        /\ \A e \in allWidgets :
                              e.w.src \notin {radioMembers(name)[t].src :
                                                t \in DOMAIN radioMembers(name)}
                   ELSE \A q \in fieldsNamed(name) : isGroupOf(form.fields[q], name)

\* C7 witness: two names of radio positions, one with members on both pages
\* made one group, the call returned.
C7_Witness ==
    /\ Done
    /\ Cardinality(radioNames) = 2
    /\ \E name \in radioNames :
          /\ ~takenBySimple(name)
          /\ Len(radioMembers(name)) = 2
          /\ radioMembers(name)[1].pageIndex # radioMembers(name)[2].pageIndex
          /\ \E q \in fieldsNamed(name) : Len(form.fields[q].widgets) = 2

RECURSIVE flatten(_)
\* The members of the groups in the order the loops visit them.
flatten(groups) == IF groups = <<>> THEN <<>> ELSE Head(groups).options \o flatten(Tail(groups))

\* The field is the checkbox of member f alone.
isCheckboxOf(fld, f) ==
    /\ fld.kind = "checkbox"
    /\ Len(fld.widgets) = 1
    /\ fld.widgets[1].src = f.src
    /\ fld.widgets[1].page = f.pageIndex
    /\ onItsPage(fld.widgets[1])

\* C8 as stated: once the call has returned, every checkbox position with a
\* value has its own checkbox field named name_value, with one widget on the
\* member's page.
C8_EveryMemberHasItsField ==
    Done => \A n \in DOMAIN fields :
                (fields[n].type = "checkbox" /\ fields[n].value # NoValue) =>
                    \E q \in DOMAIN form.fields :
                        /\ form.fields[q].name = fields[n].name \o "_" \o fields[n].value
                        /\ isCheckboxOf(form.fields[q], fields[n])

\* A field with the name member t of the visiting order would get exists when
\* its turn comes: a simple field, a radio group, or an earlier member's field.
takenBefore(members, t) ==
    LET name == members[t].name \o "_" \o members[t].value
    IN  \/ takenBySimple(name)
        \/ name \in radioNames
        \/ \E u \in 1..(t - 1) : members[u].name \o "_" \o members[u].value = name

\* C8 amended: once the call has returned, a checkbox position with a value
\* has its own checkbox field named name_value with one widget on the
\* member's page, unless a field of that name exists when its turn comes;
\* then that member is skipped and has no widget.
C8_CheckboxGroupMembers ==
    Done =>
        LET members == flatten(checkboxGroups)
        IN  /\ \A n \in DOMAIN fields :
                  (fields[n].type = "checkbox" /\ fields[n].value # NoValue) =>
                      \E t \in DOMAIN members : members[t] = fields[n]
            /\ \A t \in DOMAIN members :
                  IF takenBefore(members, t)
                  THEN \A e \in allWidgets : e.w.src # members[t].src
                  ELSE \E q \in DOMAIN form.fields :
                          /\ form.fields[q].name = members[t].name \o "_" \o members[t].value
                          /\ isCheckboxOf(form.fields[q], members[t])

\* C8 witness: two members of group "s" with different values each got a
\* field, on different pages, and the call returned.
C8_Witness ==
    /\ Done
    /\ \E q1, q2 \in DOMAIN form.fields :
          /\ form.fields[q1].name = "s_k"
          /\ form.fields[q2].name = "s_k_w"
          /\ form.fields[q1].kind = "checkbox"
          /\ form.fields[q2].kind = "checkbox"
          /\ origin(form.fields[q1].widgets[1].src).uri = MarkerUrl(<<"s">>, "checkbox", <<"k">>)
          /\ origin(form.fields[q2].widgets[1].src).uri = MarkerUrl(<<"s">>, "checkbox", <<"k_w">>)
          /\ form.fields[q1].widgets[1].page # form.fields[q2].widgets[1].page

\* C9 as stated: the name name_value of a checkbox-group member is unique:
\* members with different (name, value) have different field names, and no
\* member's field name is the name of a simple field or of a radio group.
C9_SynthesizedNamesUnique ==
    LET members == flatten(checkboxGroups)
        synth(f) == f.name \o "_" \o f.value
    IN  /\ \A t, u \in DOMAIN members :
              (members[t].name # members[u].name \/ members[t].value # members[u].value)
                  => synth(members[t]) # synth(members[u])
        /\ \A t \in DOMAIN members :
              /\ \A n \in DOMAIN simpleFields : simpleFields[n].name # synth(members[t])
              /\ \A n \in DOMAIN radioGroups : radioGroups[n].name # synth(members[t])

\* The pipeline is past the grouping loop.
Grouped == pc \in {"simple", "radio", "checkbox", "normalize"} \/ (Done /\ fields # <<>>)

occurrences(f) ==
    Cardinality({n \in DOMAIN simpleFields : simpleFields[n] = f})
    + Cardinality({n \in DOMAIN flatten(radioGroups) : flatten(radioGroups)[n] = f})
    + Cardinality({n \in DOMAIN flatten(checkboxGroups) : flatten(checkboxGroups)[n] = f})

\* C10: after grouping, every extracted position is in exactly one place of
\* the three buckets: in radioGroups[name] when its type is radio, in
\* checkboxGroups[name] when its type is checkbox and it has a value, in
\* simpleFields otherwise; the buckets hold nothing else, and a name keys
\* one group of a map.
C10_Partition ==
    Grouped =>
        /\ \A n \in DOMAIN fields :
              LET f == fields[n]
              IN  /\ occurrences(f) = 1
                  /\ IF f.type = "radio"
                     THEN \E g \in DOMAIN radioGroups :
                             radioGroups[g].name = f.name /\ f \in Range(radioGroups[g].options)
                     ELSE IF f.type = "checkbox" /\ f.value # NoValue
                     THEN \E g \in DOMAIN checkboxGroups :
                             checkboxGroups[g].name = f.name
                             /\ f \in Range(checkboxGroups[g].options)
                     ELSE f \in Range(simpleFields)
        /\ Len(simpleFields) + Len(flatten(radioGroups)) + Len(flatten(checkboxGroups))
              = Len(fields)
        /\ \A g, h \in DOMAIN radioGroups : radioGroups[g].name = radioGroups[h].name => g = h
        /\ \A g, h \in DOMAIN checkboxGroups :
              checkboxGroups[g].name = checkboxGroups[h].name => g = h

\* C10 witness: a radio, a checkbox with a value and a checkbox whose value
\* parameter is empty were grouped: one in each bucket.
C10_Witness ==
    /\ Grouped
    /\ Len(fields) = 3
    /\ Len(radioGroups) = 1
    /\ Len(checkboxGroups) = 1
    /\ Len(simpleFields) = 1
    /\ simpleFields[1].type = "checkbox"
    /\ Query(origin(simpleFields[1].src).uri) # Query(MarkerUrl(<<"s">>, "checkbox", <<>>))

\* ------------------------------------------------- materialization attempts
RECURSIVE simpleAttempts(_, _)
\* The fields the loop over simpleFields tries to create, in order.
simpleAttempts(fs, cfg) ==
    IF fs = <<>> THEN <<>>
    ELSE (IF makesField(Head(fs)) THEN <<simpleField(Head(fs), cfg)>> ELSE <<>>)
            \o simpleAttempts(Tail(fs), cfg)

RECURSIVE checkboxAttempts(_)
\* The fields the loops over checkboxGroups try to create, in order.
checkboxAttempts(groups) ==
    IF groups = <<>> THEN <<>>
    ELSE [n \in DOMAIN Head(groups).options |->
              checkboxField(Head(groups).name, Head(groups).options[n])]
            \o checkboxAttempts(Tail(groups))

\* Every creation attempt of a call, in the order the three loops make them.
attempts ==
    simpleAttempts(simpleFields, config)
        \o [n \in DOMAIN radioGroups |-> radioField(radioGroups[n])]
        \o checkboxAttempts(checkboxGroups)

\* The attempt finds a field of its name: an earlier attempt had the name.
collides(t) == \E u \in 1..(t - 1) : attempts[u].name = attempts[t].name

\* The field as the normalizer leaves it.
normalized(fld) == [fld EXCEPT !.widgets = [q \in DOMAIN @ |-> deleteBG(@[q])]]

\* C11: a parseable input never ends in an error, and once the call has
\* returned with markers, every creation attempt that found no field of its
\* name has its field in the form exactly as it is made when nothing
\* collides, with its widgets on their pages; an attempt that found its name
\* taken left nothing (no field, no widget); the form holds nothing else.
C11_CollisionIsolation ==
    /\ input.ok => pc # "rejected"
    /\ (Done /\ fields # <<>>) =>
          /\ output = "bytes"
          /\ \A t \in DOMAIN attempts :
                IF collides(t)
                THEN \A e \in allWidgets :
                        e.w.src \notin {attempts[t].widgets[q].src : q \in DOMAIN attempts[t].widgets}
                ELSE /\ \E q \in DOMAIN form.fields : form.fields[q] = normalized(attempts[t])
                     /\ \A q \in DOMAIN attempts[t].widgets : onItsPage(attempts[t].widgets[q])
          /\ Len(form.fields) = Cardinality({t \in DOMAIN attempts : ~collides(t)})

\* C11 witness: the second attempt of three found its name taken, the third,
\* made after it, has its field, and the call returned.
C11_Witness ==
    /\ Done
    /\ Len(attempts) = 3
    /\ collides(2)
    /\ ~collides(3)
    /\ \E q \in DOMAIN form.fields : form.fields[q] = normalized(attempts[3])

\* The field is the one field of simple position f: f's name, the kind of
\* f's type, multi-line for textarea only, one widget made for f.
isSimpleFieldOf(fld, f) ==
    /\ fld.name = f.name
    /\ fld.kind = (CASE f.type = "text" -> "text"
                     [] f.type = "textarea" -> "text"
                     [] f.type = "select" -> "dropdown"
                     [] f.type = "checkbox" -> "checkbox"
                     [] OTHER -> "none")
    /\ fld.multiline = (f.type = "textarea")
    /\ Len(fld.widgets) = 1
    /\ fld.widgets[1].src = f.src
    /\ onItsPage(fld.widgets[1])

\* C12 as stated: once the call has returned, every simple position has its
\* one field of the matching kind.
C12_EverySimpleHasItsField ==
    Done => \A n \in DOMAIN simpleFields :
                Cardinality({q \in DOMAIN form.fields :
                                isSimpleFieldOf(form.fields[q], simpleFields[n])}) = 1

\* C12 amended: once the call has returned, a simple position of type text,
\* textarea, select or checkbox whose name no earlier simple position took
\* has exactly one field: a text field for text and textarea, multi-line for
\* textarea only, a dropdown for select, a checkbox of the field's name for a
\* checkbox without value; a position whose name was taken has no field and
\* no widget.
C12_SimpleKindMapping ==
    Done => \A n \in DOMAIN simpleFields :
                LET f == simpleFields[n]
                    taken == \E u \in 1..(n - 1) :
                                makesField(simpleFields[u]) /\ simpleFields[u].name = f.name
                IN  makesField(f) =>
                        IF taken
                        THEN \A e \in allWidgets : e.w.src # f.src
                        ELSE /\ Cardinality(fieldsNamed(f.name)) = 1
                             /\ \A q \in fieldsNamed(f.name) : isSimpleFieldOf(form.fields[q], f)

\* C12 witness: a textarea, a select and a standalone checkbox each got
\* their field, and the call returned.
C12_Witness ==
    /\ Done
    /\ \E q1, q2, q3 \in DOMAIN form.fields :
          /\ form.fields[q1].kind = "text" /\ form.fields[q1].multiline
          /\ form.fields[q2].kind = "dropdown"
          /\ form.fields[q3].kind = "checkbox" /\ form.fields[q3].name = "d"

\* C13: once the call has returned, every dropdown of the form has as its
\* choice list exactly the list the caller's map holds for the dropdown's
\* name, and the empty list when the map has no entry for it; and a select
\* position whose creation finds no field of its name has its dropdown
\* whether or not the map holds an entry.
C13_SelectOptions ==
    Done =>
        /\ \A q \in DOMAIN form.fields :
              form.fields[q].kind = "dropdown" =>
                  form.fields[q].options =
                      (IF form.fields[q].name \in DOMAIN config
                       THEN config[form.fields[q].name] ELSE <<>>)
        /\ \A n \in DOMAIN simpleFields :
              LET f == simpleFields[n]
              IN  (f.type = "select"
                      /\ ~\E u \in 1..(n - 1) : simpleFields[u].name = f.name) =>
                      \E q \in DOMAIN form.fields :
                          /\ form.fields[q].kind = "dropdown"
                          /\ form.fields[q].name = f.name
                          /\ form.fields[q].widgets[1].src = f.src

\* C13 witness: the call returned with a dropdown that has the two options
\* of its entry and a dropdown without entry, created with no option.
C13_Witness ==
    /\ Done
    /\ DOMAIN config = {"c"}
    /\ \E q1, q2 \in DOMAIN form.fields :
          /\ form.fields[q1].kind = "dropdown" /\ form.fields[q1].name = "c"
          /\ form.fields[q1].options = <<"x", "y">>
          /\ form.fields[q2].kind = "dropdown" /\ form.fields[q2].name = "d"
          /\ form.fields[q2].options = <<>>

\* C14: once a call that extracted a marker has returned, no widget of any
\* field of the form has a background colour in its appearance
\* characteristics (MK/BG), whatever the kind of its field; until the
\* normalizer has run, every widget of a radio group has one.
C14_NoBackgroundLeft ==
    /\ (Done /\ fields # <<>>) => \A e \in allWidgets : ~e.w.bg
    /\ pc \in {"radio", "checkbox", "normalize"} =>
          \A e \in allWidgets : e.field.kind = "radio" => e.w.bg

\* C14 witness: the call returned with a radio group of two buttons and a
\* checkbox in the form.
C14_Witness ==
    /\ Done
    /\ Len(form.fields) = 2
    /\ \E q \in DOMAIN form.fields :
          form.fields[q].kind = "radio" /\ Len(form.fields[q].widgets) = 2
    /\ \E q \in DOMAIN form.fields : form.fields[q].kind = "checkbox"

\* The annotation is one of the non-matches: not a Link, no action, no URI,
\* a URI that does not start with the prefix, or one that starts with it and
\* has no name, no type or a malformed escape in its name.
leftAlone(a) ==
    \/ a.subtype # "Link"
    \/ a.action # "dict"
    \/ a.uriEnc = "absent"
    \/ a.uri = <<>>
    \/ Head(a.uri) # MARKER_URL_PREFIX
    \/ RawPath(a.uri) = <<>>
    \/ BadEscape \in Range(RawPath(a.uri))
    \/ ~\E n \in DOMAIN a.uri : a.uri[n] = "type"

\* C15: a parseable input never ends in an error; no FieldPosition is
\* recorded from a non-match and no non-match is removed; after extraction
\* every non-match of the input is on its page as it was; and a page without
\* annotation array is never changed.
C15_NonMatchesLeftAlone ==
    /\ input.ok => pc # "rejected"
    /\ \A n \in DOMAIN fields : ~leftAlone(origin(fields[n].src))
    /\ \A n \in DOMAIN removed : removed[n].id # 0 /\ ~leftAlone(origin(removed[n].id))
    /\ Extracted =>
          \A p \in DOMAIN input.pages :
              LET IsLeftAlone(a) == leftAlone(a)
              IN  SelectSeq(pages[p].annots, IsOriginal)
                      = SelectSeq(input.pages[p].annots, IsLeftAlone)
    /\ (input.ok /\ pc # "load") =>
          \A p \in DOMAIN input.pages :
              ~input.pages[p].hasAnnots => pages[p] = input.pages[p]

\* C15 witness: the call returned for a document whose first page held a
\* link with a malformed escape, a marker and a link without type, the two
\* non-matches being all that is left of these, and whose second page has no
\* annotation array.
C15_Witness ==
    /\ Done
    /\ Len(input.pages) = 2
    /\ ~input.pages[2].hasAnnots
    /\ Len(input.pages[1].annots) = 3
    /\ BadEscape \in Range(input.pages[1].annots[1].uri)
    /\ isMatch(input.pages[1].annots[2])
    /\ prefixLink(input.pages[1].annots[3])
    /\ Len(removed) = 1
    /\ SelectSeq(pages[1].annots, IsOriginal)
          = <<input.pages[1].annots[1], input.pages[1].annots[3]>>

\* How far the call has come: the stage, then the place within the stage.
progress ==
    LET stage == CASE pc = "load" -> 0
                   [] pc \in {"page", "scan", "remove"} -> 1
                   [] pc = "extracted" -> 2
                   [] pc = "simple" -> 3
                   [] pc = "radio" -> 4
                   [] pc = "checkbox" -> 5
                   [] pc = "normalize" -> 6
                   [] pc = "save" -> 7
                   [] OTHER -> 8
        within == CASE pc = "page" -> 100 * pageIndex
                    [] pc = "scan" -> 100 * pageIndex + 1 + j
                    [] pc = "remove" -> 100 * pageIndex + 50 + Len(toRemove) - i
                    [] pc \in {"simple", "radio"} -> k
                    [] pc = "checkbox" -> 10 * k + m
                    [] OTHER -> 0
    IN  1000 * stage + within

\* C16: the call ends in an error exactly when the input is no document, and
\* then no bytes are ever produced; for every document, whatever markers fail
\* to decode and whatever names collide, the call goes on until it has
\* returned bytes: until then it stands at a step of the pipeline (each can
\* be taken wherever the call stands at it), and every step takes it further.
C16_ErrorPropagation ==
    /\ [](pc = "rejected" <=> (~input.ok /\ pc # "load"))
    /\ [](~input.ok => output = "none")
    /\ [](output = "bytes" <=> pc = "done")
    /\ [](pc \in {"load", "page", "scan", "remove", "extracted", "simple", "radio",
                  "checkbox", "normalize", "save", "done", "rejected"})
    /\ [](input.ok => pc # "rejected")
    /\ [][progress' > progress]_vars

\* C16 witness: the call returned bytes for a document with a marker that
\* does not decode and a creation that found its name taken.
C16_Witness ==
    /\ Done
    /\ output = "bytes"
    /\ \E a \in allAnnots(input.pages) : prefixLink(a) /\ ~markerInfo(a).ok
    /\ Len(attempts) = 2
    /\ collides(2)
    /\ Len(form.fields) = 1

\* The five types of FieldPosition (lines 20-33).
FieldTypes == {"text", "textarea", "select", "checkbox", "radio"}

\* C17 as stated: every recorded FieldPosition has one of the five types,
\* and an annotation whose marker URL has another type is never removed.
C17_TypeDomain ==
    /\ \A n \in DOMAIN fields : fields[n].type \in FieldTypes
    /\ \A n \in DOMAIN removed :
          removed[n].id # 0 => markerInfo(origin(removed[n].id)).type \in FieldTypes

\* What the code does with a marker of another type: once the call has
\* returned, the marker has its FieldPosition, is gone from its page, and
\* has no field and no widget.
UnknownTypeIsLost ==
    Done => \A p \in DOMAIN input.pages : \A a \in Range(input.pages[p].annots) :
                (isMatch(a) /\ markerInfo(a).type \notin FieldTypes) =>
                    /\ \E n \in DOMAIN fields : fields[n].src = a.id
                    /\ a \notin Range(pages[p].annots)
                    /\ \A e \in allWidgets : e.w.src # a.id

\* The position recorded for the rendered control carries the control's
\* name, type and value (no value when none was encoded).
roundTrips ==
    /\ Len(fields) = 1
    /\ fields[1].name = Concat(input.rendered.name)
    /\ fields[1].type = input.rendered.type
    /\ fields[1].value = (IF input.rendered.value = <<>> THEN NoValue
                          ELSE Concat(input.rendered.value))

\* C18 as stated: for every name, type and optional value, the marker URL
\* the encoder builds decodes to the same name, type and value.
C18_LosslessWireFormat ==
    (Extracted /\ input.ok) => roundTrips

\* The names the URL parser takes for a dot segment of the path.
dotName(name) == name \in {<<".">>, <<".", ".">>}

\* What holds instead: every control whose name is not "." or ".." comes
\* back as it was; a control of one of these two names is not decoded at all.
LosslessButForDotNames ==
    (Extracted /\ input.ok) =>
        IF dotName(input.rendered.name) THEN fields = <<>> ELSE roundTrips

\* The removal loop of page p (0-based) is over.
pageDone(p) == input.ok /\ pc # "load" /\ (p < pageIndex \/ pc \notin {"page", "scan", "remove"})

RECURSIVE usesIn(_)
\* The annotation identities of the positions the attempts use, one entry
\* for every widget of every attempt.
usesIn(as) ==
    IF as = <<>> THEN <<>>
    ELSE [q \in DOMAIN Head(as).widgets |-> Head(as).widgets[q].src] \o usesIn(Tail(as))

\* C19: once the removal loop of a page is over, the positions recorded for
\* the page, the removals done on it and the matched annotations it held are
\* equally many: every matched annotation has exactly one position and was
\* removed exactly once, and nothing else was recorded or removed; never are
\* more removed than recorded; and a position is used by at most one widget
\* of one creation attempt, and has at most one widget in the form.
C19_OneToOneLifecycle ==
    /\ \A p \in 0..(Len(pages) - 1) :
          LET recorded == {n \in DOMAIN fields : fields[n].pageIndex = p}
              taken == {n \in DOMAIN removed : removed[n].page = p}
              matched == {n \in DOMAIN input.pages[p + 1].annots :
                             isMatch(input.pages[p + 1].annots[n])}
          IN  /\ Cardinality(taken) <= Cardinality(recorded)
              /\ pageDone(p) =>
                    /\ Cardinality(recorded) = Cardinality(taken)
                    /\ Cardinality(recorded) = Cardinality(matched)
                    /\ \A n \in matched :
                          LET id == input.pages[p + 1].annots[n].id
                          IN  /\ Cardinality({q \in recorded : fields[q].src = id}) = 1
                              /\ Cardinality({q \in taken : removed[q].id = id}) = 1
    /\ LET uses == usesIn(attempts)
       IN  /\ \A a, b \in DOMAIN uses : uses[a] = uses[b] => a = b
           /\ \A a \in DOMAIN uses : \E n \in DOMAIN fields : fields[n].src = uses[a]
    /\ \A a, b \in DOMAIN fields : fields[a].src = fields[b].src => a = b
    /\ \A e1, e2 \in allWidgets : e1.w.src = e2.w.src => e1 = e2

\* C19 witness: the call returned for a document with a matched annotation
\* and another one on its first page and a matched one on its second: two
\* positions, two removals, each position used by one attempt.
C19_Witness ==
    /\ Done
    /\ Len(input.pages) = 2
    /\ Len(fields) = 2
    /\ Len(removed) = 2
    /\ fields[1].pageIndex = 0
    /\ fields[2].pageIndex = 1
    /\ Len(input.pages[1].annots) = 2
    /\ Len(usesIn(attempts)) = 2

\* The stage of the pipeline the call stands in: 1 extraction and removal,
\* 2 grouping, 3 materialization, 4 normalization, 5 serialization, 6 over.
stageOf(at) ==
    CASE at = "load" -> 0
      [] at \in {"page", "scan", "remove"} -> 1
      [] at = "extracted" -> 2
      [] at \in {"simple", "radio", "checkbox"} -> 3
      [] at = "normalize" -> 4
      [] at = "save" -> 5
      [] OTHER -> 6

\* C20: the call never goes back to an earlier stage, and materialization
\* runs its three loops in their order; positions are recorded and markers
\* removed only in the extraction stage, fields and widgets are created only
\* in the materialization stage, after which the normalizer starts with every
\* attempt made; backgrounds are deleted only by the normalizer, which leaves
\* none; and the bytes are produced only by the serialization, which comes
\* after the normalizer whenever a field was to be created.
C20_StageOrdering ==
    /\ [][stageOf(pc') >= stageOf(pc)]_vars
    /\ [][/\ pc' = "radio" => pc \in {"simple", "radio"}
          /\ pc' = "checkbox" => pc \in {"radio", "checkbox"}
          /\ pc' = "normalize" => pc = "checkbox"
          /\ pc' = "simple" => pc \in {"extracted", "simple"}]_vars
    /\ [][(fields' # fields \/ removed' # removed) => stageOf(pc) = 1]_vars
    /\ [][Len(form'.fields) # Len(form.fields) => stageOf(pc) = 3]_vars
    /\ [][(pages' # pages /\ stageOf(pc) # 3) => pc \in {"load", "remove"}]_vars
    /\ [](stageOf(pc) <= 2 => form.fields = <<>>)
    /\ [](stageOf(pc) >= 4 /\ fields # <<>> =>
             Len(form.fields) = Cardinality({t \in DOMAIN attempts : ~collides(t)}))
    /\ [][(\E e \in allWidgets : e.w.bg) /\ (\A e \in allWidgets' : ~e.w.bg)
             => pc = "normalize"]_vars
    /\ [](stageOf(pc) >= 5 => \A e \in allWidgets : ~e.w.bg)
    /\ [][output' # output => (pc = "save" /\ form' = form /\ pages' = pages)]_vars
    /\ [][(pc' = "save" /\ fields # <<>>) => pc = "normalize"]_vars

\* C20 witness: the normalizer is about to start with a text field, a radio
\* group and a group checkbox created, the radio widget still with its
\* background, every marker removed and nothing serialized.
C20_Witness ==
    /\ pc = "normalize"
    /\ Len(form.fields) = 3
    /\ Len(removed) = 3
    /\ \E e \in allWidgets : e.w.bg
    /\ \A a \in allAnnots(pages) : ~isMatch(a)
    /\ output = "none"

\* The simple positions of a name that make a field (text, textarea, select,
\* checkbox), as places in simpleFields.
simpleOfName(name) ==
    {n \in DOMAIN simpleFields : makesField(simpleFields[n]) /\ simpleFields[n].name = name}

\* C23: positions are recorded page after page and, on a page, in the order
\* of the annotation array, and the simple fields keep that order; once the
\* call has returned, of the simple fields that share a name the first in
\* that order has its field, of its own kind, every later one has no field
\* and no widget, and exactly one field has the name.
C23_FirstWins ==
    /\ \A a, b \in DOMAIN fields :
          a < b => /\ fields[a].pageIndex <= fields[b].pageIndex
                   /\ fields[a].src < fields[b].src
    /\ \A a, b \in DOMAIN simpleFields : a < b => simpleFields[a].src < simpleFields[b].src
    /\ Done =>
          \A n \in DOMAIN simpleFields :
              LET f == simpleFields[n]
                  same == simpleOfName(f.name)
              IN  makesField(f) =>
                      /\ Cardinality(fieldsNamed(f.name)) = 1
                      /\ IF \A u \in same : n <= u
                         THEN \A q \in fieldsNamed(f.name) : isSimpleFieldOf(form.fields[q], f)
                         ELSE \A e \in allWidgets : e.w.src # f.src

\* C23 witness: three simple fields of one name and of different kinds, the
\* first on the first page and the last on the second; the call returned
\* with the field of the first.
C23_Witness ==
    /\ Done
    /\ Len(simpleFields) = 3
    /\ Cardinality(simpleOfName("a")) = 3
    /\ simpleFields[1].pageIndex = 0
    /\ simpleFields[3].pageIndex = 1
    /\ simpleFields[1].type = "select"
    /\ simpleFields[2].type = "text"
    /\ Len(form.fields) = 1
    /\ form.fields[1].kind = "dropdown"

\* The loop a field was made in, as its place in the order of the three
\* loops: the bucket of the position its first widget was made for.
loopOf(fld) ==
    LET f == CHOOSE g \in Range(fields) : g.src = fld.widgets[1].src
    IN  CASE bucketOf(f) = "simple" -> 1
          [] bucketOf(f) = "radio" -> 2
          [] bucketOf(f) = "checkbox" -> 3

\* The widget annotations on the pages, as (page, index) places.
widgetAnnots ==
    {pl \in UNION {{<<p, n>> : n \in DOMAIN pages[p].annots} : p \in DOMAIN pages} :
        pages[pl[1]].annots[pl[2]].subtype = "Widget"}

\* C24: the fields of the form stand in the order simple fields, radio
\* groups, checkbox-group members, and no radio group exists while the
\* simple loop runs, no checkbox-group member while the radio loop runs;
\* once the call has returned, a radio group whose name a simple field took
\* has no widget for any member, in the form or on a page, and the simple
\* field of that name is the one field of the name; every other radio group
\* and every checkbox-group member whose name was free has its field.
C24_BucketPriority ==
    /\ \A q1, q2 \in DOMAIN form.fields :
          q1 < q2 => loopOf(form.fields[q1]) <= loopOf(form.fields[q2])
    /\ pc = "simple" => \A q \in DOMAIN form.fields : loopOf(form.fields[q]) = 1
    /\ pc = "radio" => \A q \in DOMAIN form.fields : loopOf(form.fields[q]) <= 2
    /\ Done =>
          /\ \A g \in DOMAIN radioGroups :
                LET name == radioGroups[g].name
                    srcs == {radioGroups[g].options[t].src : t \in DOMAIN radioGroups[g].options}
                IN  IF takenBySimple(name)
                    THEN /\ \A e \in allWidgets : e.w.src \notin srcs
                         /\ Cardinality(fieldsNamed(name)) = 1
                         /\ \A q \in fieldsNamed(name) :
                               /\ loopOf(form.fields[q]) = 1
                               /\ form.fields[q].kind # "radio"
                    ELSE \E q \in DOMAIN form.fields : isGroupOf(form.fields[q], name)
          /\ \A t \in DOMAIN flatten(checkboxGroups) :
                LET mem == flatten(checkboxGroups)
                IN  ~takenBefore(mem, t) =>
                        \E q \in DOMAIN form.fields : isCheckboxOf(form.fields[q], mem[t])
          /\ Cardinality(widgetAnnots) = Cardinality(allWidgets)

\* C24 witness: the text field "g" was created, the radio group "g" after
\* it was skipped, the radio group "h" after that one was created, and the
\* call returned.
C24_Witness ==
    /\ Done
    /\ Len(radioGroups) = 2
    /\ radioGroups[1].name = "g"
    /\ radioGroups[2].name = "h"
    /\ Len(form.fields) = 2
    /\ form.fields[1].name = "g" /\ form.fields[1].kind = "text"
    /\ form.fields[2].name = "h" /\ form.fields[2].kind = "radio"

\* A link whose URI decodes as a marker and whose Rect is missing, is not an
\* array or has not exactly four entries.
badRectMarker(a) ==
    /\ \/ a.rect.kind # "array"
       \/ Len(a.rect.nums) # 4
    /\ a.subtype = "Link" /\ a.action = "dict" /\ a.uriEnc # "absent"
    /\ parseMarkerUrl(urlOf(a)) # NoMarker

\* C25: no FieldPosition is recorded from a marker link with a bad Rect, none
\* is ever removed and none has a widget; when the call has returned every
\* one of the input is on its page, in the order of the input.
C25_BadRectIsNoMatch ==
    /\ \A n \in DOMAIN fields : ~badRectMarker(origin(fields[n].src))
    /\ \A n \in DOMAIN removed : removed[n].id # 0 /\ ~badRectMarker(origin(removed[n].id))
    /\ Done =>
          \A p \in DOMAIN input.pages :
              LET IsBad(a) == badRectMarker(a)
              IN  SelectSeq(pages[p].annots, IsBad) = SelectSeq(input.pages[p].annots, IsBad)
    /\ \A e \in allWidgets : ~badRectMarker(origin(e.w.src))

\* C25 witness: the call returned for a page that held a marker link with
\* three Rect entries, one without Rect and, between them, a marker with
\* four; the field of that one was made and the other two links are left.
C25_Witness ==
    /\ Done
    /\ Len(input.pages) = 1
    /\ Len(input.pages[1].annots) = 3
    /\ Len(input.pages[1].annots[1].rect.nums) = 3
    /\ isMatch(input.pages[1].annots[2])
    /\ input.pages[1].annots[3].rect.kind = "absent"
    /\ Len(fields) = 1
    /\ Len(form.fields) = 1
    /\ Len(SelectSeq(pages[1].annots, IsOriginal)) = 2
    /\ \A a \in Range(SelectSeq(pages[1].annots, IsOriginal)) : badRectMarker(a)

\* What the marker URL of the annotation carries: the value parameter when
\* it is there and not empty, the field name otherwise.
valueOrName(a) ==
    LET v == searchParamsGet(urlOf(a), "value")
    IN  IF v \in {NoValue, ""} THEN markerInfo(a).name ELSE v

\* C26: once the call has returned, every widget of a radio group has as
\* option value what its marker carries, the value when it is not empty and
\* the field name otherwise; so two members of a group whose markers carry
\* the same value, or none, have the same option value.
C26_RadioOptionValues ==
    Done =>
        \A q \in DOMAIN form.fields :
            form.fields[q].kind = "radio" =>
                LET ws == form.fields[q].widgets
                IN  /\ \A t \in DOMAIN ws :
                          /\ ws[t].option = valueOrName(origin(ws[t].src))
                          /\ ws[t].option # NoValue
                    /\ \A t, u \in DOMAIN ws :
                          markerInfo(origin(ws[t].src)).value = markerInfo(origin(ws[u].src)).value
                              => ws[t].option = ws[u].option

\* C26 witness: group "g" was made from a member with value "v", a member
\* without value parameter and a member with an empty one, and the call
\* returned: the options are "v", "g" and "g".
C26_Witness ==
    /\ Done
    /\ \E q \in DOMAIN form.fields :
          /\ form.fields[q].name = "g"
          /\ form.fields[q].kind = "radio"
          /\ Len(form.fields[q].widgets) = 3
          /\ form.fields[q].widgets[1].option = "v"
          /\ form.fields[q].widgets[2].option = "g"
          /\ form.fields[q].widgets[3].option = "g"
          /\ origin(form.fields[q].widgets[2].src).uri
                # origin(form.fields[q].widgets[3].src).uri

\* C27: every widget is at its marker's (x, y); the widget of a checkbox
\* marker (standalone or group member) and of a radio marker is a square
\* whose side is the smaller of the marker's width and height; the widget of
\* a text, textarea or select marker has the marker's width and height; and
\* when the call has returned the annotation on the page has that rectangle.
C27_SquareChoiceWidgets ==
    \A e \in allWidgets :
        LET a == origin(e.w.src)
            f == CHOOSE g \in Range(fields) : g.src = e.w.src
            rw == a.rect.nums[3] - a.rect.nums[1]
            rh == a.rect.nums[4] - a.rect.nums[2]
        IN  /\ e.w.x = a.rect.nums[1]
            /\ e.w.y = a.rect.nums[2]
            /\ f.type \in {"checkbox", "radio"} =>
                  /\ e.w.width = e.w.height
                  /\ e.w.width \in {rw, rh}
                  /\ e.w.width <= rw /\ e.w.width <= rh
            /\ f.type \in {"text", "textarea", "select"} =>
                  e.w.width = rw /\ e.w.height = rh
            /\ Done => onItsPage(e.w)

\* C27 witness: a standalone checkbox on a wide marker, a checkbox-group
\* member on a tall one and a radio option on a wide one have their widgets,
\* all three square, and the call returned.
C27_Witness ==
    /\ Done
    /\ \E e1, e2, e3 \in allWidgets :
          /\ e1.field.name = "d" /\ e1.field.kind = "checkbox"
          /\ e1.w.width = 20 /\ e1.w.height = 20
          /\ e2.field.name = "s_k" /\ e2.field.kind = "checkbox"
          /\ e2.w.width = 20 /\ e2.w.height = 20
          /\ e3.field.kind = "radio"
          /\ e3.w.width = 20 /\ e3.w.height = 20

\* ===================================================== generate-output.ts
\* generateOutput (lines 40-172) and closeBrowser (lines 33-35) of the core.
\* A call is suspended at each await; between two awaits it runs alone.

\* The generateOutput calls that run together in the browser runs, and in
\* the runs over every configuration.
MaxCalls == 2
MaxOutputCalls == 1

\* The browser handed in as browserRef (never launched by this module).
InjectedBrowser == 0 - 1

\* What the page's select wrappers hold (page.evaluate, lines 94-109): none,
\* one select, or two wrappers of one name.
SelectData ==
    { <<>>,
      <<[name |-> "c", options |-> <<"x", "y">>]>>,
      <<[name |-> "c", options |-> <<"x">>], [name |-> "c", options |-> <<"y">>]>> }

\* The part of Config generateOutput branches on.  metadata: config.metadata
\* holds a title, author, subject or keywords (lines 141-155).
RenderConfigs ==
    [fillable : BOOLEAN, as_html : BOOLEAN, metadata : BOOLEAN,
     browserRef : BOOLEAN, selectData : SelectData]

PlainConfigs ==
    {cfg \in RenderConfigs :
        ~cfg.fillable /\ ~cfg.as_html /\ ~cfg.metadata /\ cfg.selectData = <<>>}

Undefined == "undefined"

\* Line 111: new Map(selectData.map(s => [s.name, s.options])): the last
\* entry of a name wins.
selectOptionsMap(selectData) ==
    [n \in {selectData[q].name : q \in DOMAIN selectData} |->
        LET last == CHOOSE q \in DOMAIN selectData :
                        /\ selectData[q].name = n
                        /\ \A r \in DOMAIN selectData : selectData[r].name = n => r <= q
        IN  selectData[last].options]

\* Lines 110-112: the map is built only for a non-empty result.
selectOptionsFrom(selectData) ==
    IF Len(selectData) > 0 THEN selectOptionsMap(selectData) ELSE Undefined

\* A gate that leaves out the test of as_html.
readsSelectOptionsWhenFillable(cfg) == cfg.fillable

\* Line 93: if (config.fillable && !config.as_html).
readsSelectOptions(cfg) == cfg.fillable /\ ~cfg.as_html

\* Line 162: if (config.fillable), reached for PDF output only.
addsFormFields(cfg) == cfg.fillable

\* A test that takes a pending launch for none.
needsLaunchWhilePending(bp) == bp = 0 \/ launches[bp] = "pending"

\* Line 52: if (!browserPromise).
needsLaunch(bp) == bp = 0

\* A generateOutput call at its first statement, and a closeBrowser call.
\* page: "none", "open" or "closed".  log: the calls made on the page and on
\* the PDF so far, each with the state of the page when it was made.
GenerateOutputCall(cfg) ==
    [kind |-> "generateOutput", cfg |-> cfg, pc |-> "getBrowser", browser |-> 0,
     page |-> "none", selectOptions |-> Undefined, log |-> <<>>]
CloseBrowserCall ==
    [kind |-> "closeBrowser", cfg |-> <<>>, pc |-> "closeBrowser", browser |-> 0,
     page |-> "none", selectOptions |-> Undefined, log |-> <<>>]

\* n generateOutput calls, the first with any configuration of firstCfgs,
\* and one closeBrowser call, all started and none past its first statement.
RECURSIVE CallSeqs(_, _, _)
CallSeqs(n, firstCfgs, restCfgs) ==
    IF n = 0 THEN {<<CloseBrowserCall>>}
    ELSE {<<GenerateOutputCall(cfg)>> \o rest :
            cfg \in firstCfgs, rest \in CallSeqs(n - 1, restCfgs, restCfgs)}

InitRenderer(n, firstCfgs, restCfgs) ==
    /\ InitPipeline({Unparseable}, {NoSelectOptions})
    /\ other = NoCall
    /\ NoDesktop
    /\ browserPromise = 0
    /\ launches = <<>>
    /\ calls \in CallSeqs(n, firstCfgs, restCfgs)

InitOutput == InitRenderer(MaxOutputCalls, RenderConfigs, PlainConfigs)
InitBrowser == InitRenderer(MaxCalls, PlainConfigs, PlainConfigs)

\* An entry of a call's log.
logged(c, event, arg) == [event |-> event, page |-> calls[c].page, arg |-> arg]

\* What a step of the renderer does not touch.
outsideRenderer == <<callVars, other, browser, browsers, tasks>>

isAt(c, kind, at) == calls[c].kind = kind /\ calls[c].pc = at

\* Lines 46-59: getBrowser runs up to its return; the call then awaits the
\* promise (of browserRef, or of the launch the module holds).
GetBrowser(c) ==
    /\ isAt(c, "generateOutput", "getBrowser")
    /\ IF calls[c].cfg.browserRef
       THEN /\ calls' = [calls EXCEPT ![c].pc = "browser", ![c].browser = InjectedBrowser]
            /\ UNCHANGED <<browserPromise, launches>>
       ELSE IF needsLaunch(browserPromise)
       THEN /\ launches' = Append(launches, "pending")
            /\ browserPromise' = Len(launches) + 1
            /\ calls' = [calls EXCEPT ![c].pc = "browser", ![c].browser = Len(launches) + 1]
       ELSE /\ calls' = [calls EXCEPT ![c].pc = "browser", ![c].browser = browserPromise]
            /\ UNCHANGED <<browserPromise, launches>>
    /\ UNCHANGED outsideRenderer

\* puppeteer.launch settles: the browser is there, or the launch failed.
LaunchSettles ==
    /\ \E b \in DOMAIN launches :
          /\ launches[b] = "pending"
          /\ \E outcome \in {"open", "failed"} : launches' = [launches EXCEPT ![b] = outcome]
    /\ UNCHANGED <<browserPromise, calls>>
    /\ UNCHANGED outsideRenderer

\* Line 59: the await of getBrowser() is over.
BrowserReady(c) ==
    /\ isAt(c, "generateOutput", "browser")
    /\ LET b == calls[c].browser
       IN  IF b = InjectedBrowser THEN calls' = [calls EXCEPT ![c].pc = "newPage"]
           ELSE /\ launches[b] # "pending"
                /\ calls' = [calls EXCEPT ![c].pc = IF launches[b] = "failed" THEN "failed"
                                                    ELSE "newPage"]
    /\ UNCHANGED <<browserPromise, launches>>
    /\ UNCHANGED outsideRenderer

\* Line 61.
NewPage(c) ==
    /\ isAt(c, "generateOutput", "newPage")
    /\ calls' = [calls EXCEPT ![c].pc = "setContent", ![c].page = "open"]
    /\ UNCHANGED <<browserPromise, launches>>
    /\ UNCHANGED outsideRenderer

\* Lines 63-68.
SetContent(c) ==
    /\ isAt(c, "generateOutput", "setContent")
    /\ calls' = [calls EXCEPT ![c].pc = "addStyleTag"]
    /\ UNCHANGED <<browserPromise, launches>>
    /\ UNCHANGED outsideRenderer

\* Lines 70-81.
AddStyleTags(c) ==
    /\ isAt(c, "generateOutput", "addStyleTag")
    /\ calls' = [calls EXCEPT ![c].pc = "addScriptTag"]
    /\ UNCHANGED <<browserPromise, launches>>
    /\ UNCHANGED outsideRenderer

\* Lines 83-85.
AddScriptTags(c) ==
    /\ isAt(c, "generateOutput", "addScriptTag")
    /\ calls' = [calls EXCEPT ![c].pc = "waitForNetworkIdle"]
    /\ UNCHANGED <<browserPromise, launches>>
    /\ UNCHANGED outsideRenderer

\* Line 88.
WaitForNetworkIdle(c) ==
    /\ isAt(c, "generateOutput", "waitForNetworkIdle")
    /\ calls' = [calls EXCEPT ![c].pc = "evaluate"]
    /\ UNCHANGED <<browserPromise, launches>>
    /\ UNCHANGED outsideRenderer


\* Lines 92-113: the select options are read from the page, when asked for.
Evaluate(c) ==
    /\ isAt(c, "generateOutput", "evaluate")
    /\ IF readsSelectOptions(calls[c].cfg)
       THEN calls' = [calls EXCEPT
                        ![c].pc = "export",
                        ![c].selectOptions = selectOptionsFrom(calls[c].cfg.selectData),
                        ![c].log = Append(@, logged(c, "evaluate", Undefined))]
       ELSE calls' = [calls EXCEPT ![c].pc = "export"]
    /\ UNCHANGED <<browserPromise, launches>>
    /\ UNCHANGED outsideRenderer

\* Lines 115-126: page.content() for HTML, emulateMediaType and page.pdf()
\* otherwise.
Export(c) ==
    /\ isAt(c, "generateOutput", "export")
    /\ calls' = [calls EXCEPT
                    ![c].pc = "close",
                    ![c].log = Append(@, logged(c, IF calls[c].cfg.as_html THEN "content"
                                                   ELSE "pdf", Undefined))]
    /\ UNCHANGED <<browserPromise, launches>>
    /\ UNCHANGED outsideRenderer

\* Lines 128-137: page.close(), and the return of the HTML output.
ClosePage(c) ==
    /\ isAt(c, "generateOutput", "close")
    /\ calls' = [calls EXCEPT
                    ![c].pc = IF calls[c].cfg.as_html THEN "returned" ELSE "metadata",
                    ![c].page = "closed"]
    /\ UNCHANGED <<browserPromise, launches>>
    /\ UNCHANGED outsideRenderer

\* Lines 139-158.
InjectMetadata(c) ==
    /\ isAt(c, "generateOutput", "metadata")
    /\ IF calls[c].cfg.metadata
       THEN calls' = [calls EXCEPT
                        ![c].pc = "acroform",
                        ![c].log = Append(@, logged(c, "injectPdfMetadata", Undefined))]
       ELSE calls' = [calls EXCEPT ![c].pc = "acroform"]
    /\ UNCHANGED <<browserPromise, launches>>
    /\ UNCHANGED outsideRenderer

\* Lines 160-171: addAcroFormFields(pdf, { selectOptions }), and the return.
AddAcroForm(c) ==
    /\ isAt(c, "generateOutput", "acroform")
    /\ IF addsFormFields(calls[c].cfg)
       THEN calls' = [calls EXCEPT
                        ![c].pc = "returned",
                        ![c].log = Append(@, logged(c, "addAcroFormFields",
                                                    calls[c].selectOptions))]
       ELSE calls' = [calls EXCEPT ![c].pc = "returned"]
    /\ UNCHANGED <<browserPromise, launches>>
    /\ UNCHANGED outsideRenderer

\* The awaits of a call that can reject: every call on the page, the
\* metadata injection and addAcroFormFields, when the call makes them.
awaiting(c) ==
    \/ calls[c].pc \in {"newPage", "setContent", "addStyleTag", "addScriptTag",
                        "waitForNetworkIdle", "export", "close"}
    \/ calls[c].pc = "evaluate" /\ readsSelectOptions(calls[c].cfg)
    \/ calls[c].pc = "metadata" /\ calls[c].cfg.metadata
    \/ calls[c].pc = "acroform" /\ addsFormFields(calls[c].cfg)

\* An awaited promise rejects: generateOutput has no try, the call ends.
Throw(c) ==
    /\ calls[c].kind = "generateOutput"
    /\ awaiting(c)
    /\ calls' = [calls EXCEPT
                    ![c].pc = "failed",
                    ![c].log = Append(@, logged(c, "throw", calls[c].pc))]
    /\ UNCHANGED <<browserPromise, launches>>
    /\ UNCHANGED outsideRenderer

\* Lines 33-35: await (await browserPromise)?.close().
CloseBrowser(c) ==
    /\ isAt(c, "closeBrowser", "closeBrowser")
    /\ IF browserPromise = 0
       THEN calls' = [calls EXCEPT ![c].pc = "returned"] /\ UNCHANGED launches
       ELSE /\ launches[browserPromise] # "pending"
            /\ IF launches[browserPromise] = "failed"
               THEN calls' = [calls EXCEPT ![c].pc = "failed"] /\ UNCHANGED launches
               ELSE /\ calls' = [calls EXCEPT ![c].pc = "returned"]
                    /\ launches' = [launches EXCEPT ![browserPromise] = "closed"]
    /\ UNCHANGED browserPromise
    /\ UNCHANGED outsideRenderer

NextRenderer ==
    \/ LaunchSettles
    \/ \E c \in DOMAIN calls :
          \/ GetBrowser(c)
          \/ BrowserReady(c)
          \/ NewPage(c)
          \/ SetContent(c)
          \/ AddStyleTags(c)
          \/ AddScriptTags(c)
          \/ WaitForNetworkIdle(c)
          \/ Evaluate(c)
          \/ Export(c)
          \/ ClosePage(c)
          \/ InjectMetadata(c)
          \/ AddAcroForm(c)
          \/ Throw(c)
          \/ CloseBrowser(c)

SpecOutput == InitOutput /\ [][NextRenderer]_vars
SpecBrowser == InitBrowser /\ [][NextRenderer]_vars


\* ------------------------------------------------ properties of the renderer
generateOutputCalls == {c \in DOMAIN calls : calls[c].kind = "generateOutput"}
finished(c) == calls[c].pc \in {"returned", "failed"}

\* The places of an event in the log of a call.
placesOf(c, event) == {n \in DOMAIN calls[c].log : calls[c].log[n].event = event}

\* C21: in every call, page.evaluate is made only when fillable is set and
\* the output is not HTML, on the open page and before page.pdf(), and with
\* these settings page.pdf() is never made without it; addAcroFormFields is
\* called only when fillable is set and the output is a PDF, at most once,
\* after page.pdf() and after the metadata injection when there is one, with
\* the map of the page's selects (a name's last entry, undefined when the
\* page has none); a call that returned made it exactly when fillable is set
\* and the output is not HTML.
C21_SelectOptionsGating ==
    \A c \in generateOutputCalls :
        LET cfg == calls[c].cfg
            log == calls[c].log
            data == cfg.selectData
        IN  /\ \A n \in placesOf(c, "evaluate") :
                  /\ cfg.fillable /\ ~cfg.as_html
                  /\ log[n].page = "open"
                  /\ \A q \in placesOf(c, "pdf") : n < q
            /\ \A n \in placesOf(c, "pdf") :
                  cfg.fillable => \E q \in placesOf(c, "evaluate") : q < n
            /\ \A n \in placesOf(c, "addAcroFormFields") :
                  /\ cfg.fillable /\ ~cfg.as_html
                  /\ \E q \in placesOf(c, "pdf") : q < n
                  /\ cfg.metadata => \E q \in placesOf(c, "injectPdfMetadata") : q < n
                  /\ \A q \in placesOf(c, "injectPdfMetadata") : q < n
                  /\ IF data = <<>> THEN log[n].arg = Undefined
                     ELSE /\ DOMAIN log[n].arg = {data[q].name : q \in DOMAIN data}
                          /\ \A q \in DOMAIN data :
                                (\A r \in DOMAIN data : data[r].name = data[q].name => r <= q)
                                    => log[n].arg[data[q].name] = data[q].options
            /\ Cardinality(placesOf(c, "addAcroFormFields")) <= 1
            /\ calls[c].pc = "returned" =>
                  (placesOf(c, "addAcroFormFields") # {} <=> (cfg.fillable /\ ~cfg.as_html))

\* C21 witness: a fillable PDF call with metadata on a page with two select
\* wrappers of one name returned: the options were read, then the PDF was
\* made, then the metadata injected, then addAcroFormFields called with the
\* second wrapper's options.
C21_Witness ==
    \E c \in generateOutputCalls :
        /\ calls[c].pc = "returned"
        /\ Len(calls[c].cfg.selectData) = 2
        /\ [n \in DOMAIN calls[c].log |-> calls[c].log[n].event]
              = <<"evaluate", "pdf", "injectPdfMetadata", "addAcroFormFields">>
        /\ calls[c].log[4].arg["c"] = <<"y">>


\* The generateOutput calls without browserRef that are past getBrowser().
sharing == {c \in generateOutputCalls : ~calls[c].cfg.browserRef /\ calls[c].pc # "getBrowser"}

\* C28: puppeteer.launch was called at most once, and only if a call without
\* browserRef went through getBrowser (closeBrowser and calls with browserRef
\* launch nothing); every call without browserRef that is past getBrowser
\* holds, or awaits, the browser of that one launch, which is the one the
\* module's promise is of; a call with browserRef holds browserRef.
C28_SingleLaunch ==
    /\ Len(launches) <= 1
    /\ launches # <<>> => sharing # {}
    /\ \A c \in sharing : calls[c].browser = 1 /\ browserPromise = 1
    /\ \A c \in generateOutputCalls :
          (calls[c].cfg.browserRef /\ calls[c].pc # "getBrowser")
              => calls[c].browser = InjectedBrowser

\* C28 witness: two calls without browserRef both await the one launch,
\* which is still pending, and closeBrowser, called before any launch, has
\* returned.
C28_Witness ==
    /\ Cardinality(sharing) >= 2
    /\ \A c \in sharing : calls[c].pc = "browser"
    /\ launches = <<"pending">>
    /\ \E c \in DOMAIN calls : calls[c].kind = "closeBrowser" /\ calls[c].pc = "returned"

\* C30 as stated: a generateOutput call that has returned or failed has no
\* page open.
C30_PageClosedAtCompletion ==
    \A c \in generateOutputCalls : finished(c) => calls[c].page # "open"


\* ================================================ desktop: conversion.ts
\* getBrowser (lines 7-15), closeBrowserInstance (lines 17-22) and the
\* convertFile calls that use them (lines 24-73).  Every call is suspended
\* at its awaits.

\* The calls that run together, and the browsers launched in a run.
MaxTasks == 2
MaxBrowsers == 3

\* A call that is not running.  b: the browser the call got or is closing.
Idle == [pc |-> "idle", b |-> 0]

InitDesktop ==
    /\ InitPipeline({Unparseable}, {NoSelectOptions})
    /\ other = NoCall
    /\ NoRenderer
    /\ browser = 0
    /\ browsers = <<>>
    /\ tasks = [t \in 1..MaxTasks |-> Idle]

outsideDesktop == <<callVars, other, browserPromise, launches, calls>>

\* Line 8: browser && browser.connected can be read as true.  A browser
\* whose close() is under way may or may not be disconnected yet.
mayBeConnected(b) == IF b = 0 THEN FALSE ELSE browsers[b] \in {"open", "closing"}
mayBeDisconnected(b) == IF b = 0 THEN TRUE ELSE browsers[b] \in {"closing", "closed"}

\* Lines 31, 7-14: convertFile calls getBrowser, which returns the module's
\* browser or starts a launch and awaits it.
ConvertFile(t) ==
    /\ tasks[t].pc = "idle"
    /\ \/ /\ mayBeConnected(browser)
          /\ tasks' = [tasks EXCEPT ![t] = [pc |-> "converting", b |-> browser]]
       \/ /\ mayBeDisconnected(browser)
          /\ Len(browsers) < MaxBrowsers
          /\ tasks' = [tasks EXCEPT ![t] = [pc |-> "launching", b |-> 0]]
    /\ UNCHANGED <<browser, browsers>>
    /\ UNCHANGED outsideDesktop

\* Lines 9-14: the launch resolved; the browser is assigned and returned.
Launched(t) ==
    /\ tasks[t].pc = "launching"
    /\ browsers' = Append(browsers, "open")
    /\ browser' = Len(browsers) + 1
    /\ tasks' = [tasks EXCEPT ![t] = [pc |-> "converting", b |-> Len(browsers) + 1]]
    /\ UNCHANGED outsideDesktop

\* Lines 51-72: convertMdToPdf with the browser settles and the call returns
\* its result (success or, from the catch, failure).
Converted(t) ==
    /\ tasks[t].pc = "converting"
    /\ tasks' = [tasks EXCEPT ![t] = Idle]
    /\ UNCHANGED <<browser, browsers>>
    /\ UNCHANGED outsideDesktop

\* Lines 18-19: closeBrowserInstance starts browser.close(), or returns when
\* there is no browser.
CloseBrowserInstance(t) ==
    /\ tasks[t].pc = "idle"
    /\ IF browser # 0
       THEN /\ browsers' = [browsers EXCEPT ![browser] = IF @ = "closed" THEN @ ELSE "closing"]
            /\ tasks' = [tasks EXCEPT ![t] = [pc |-> "closing", b |-> browser]]
       ELSE UNCHANGED <<browsers, tasks>>
    /\ UNCHANGED browser
    /\ UNCHANGED outsideDesktop

\* Lines 19-20: close() resolved; the module's variable is set to null.
BrowserClosed(t) ==
    /\ tasks[t].pc = "closing"
    /\ browsers' = [browsers EXCEPT ![tasks[t].b] = "closed"]
    /\ browser' = 0
    /\ tasks' = [tasks EXCEPT ![t] = Idle]
    /\ UNCHANGED outsideDesktop

NextDesktop ==
    \E t \in DOMAIN tasks :
        \/ ConvertFile(t)
        \/ Launched(t)
        \/ Converted(t)
        \/ CloseBrowserInstance(t)
        \/ BrowserClosed(t)

SpecDesktop == InitDesktop /\ [][NextDesktop]_vars

\* C29 as stated: at most one launched browser is open at a time, and when
\* no call is running every browser that is not closed is the one the
\* module's variable holds.
C29_SingleBrowserHandle ==
    /\ Cardinality({b \in DOMAIN browsers : browsers[b] = "open"}) <= 1
    /\ (\A t \in DOMAIN tasks : tasks[t].pc = "idle") =>
          \A b \in DOMAIN browsers : browsers[b] # "closed" => browser = b


\* ================================== two addAcroFormFields calls in flight
\* addAcroFormFields awaits PDFDocument.load (line 171) and pdfDoc.save
\* (lines 175, 181, 314); between the two it runs without giving up the
\* thread.  A second call can run while the first is suspended at an await;
\* the variables of the pipeline are the locals of the call that is running
\* and `other` holds the locals of the suspended one.

\* Markers of the two-call runs: a text field and a checkbox-group member
\* whose field has the same name.
PairAnnots ==
    { MarkerLink(<<"s_k">>, "text", <<>>, Wide),
      MarkerLink(<<"s">>, "checkbox", <<"k">>, Tall) }

\* The inputs of the second call: the documents of one page and one
\* annotation.
SecondDocs ==
    {d \in Docs(PairAnnots, FALSE) : Len(d.pages) = 1 /\ Len(d.pages[1].annots) = 1}

\* The locals of the running call, as they are kept while it is suspended.
suspended(id) ==
    [id |-> id, input |-> input, config |-> config, pc |-> pc, pages |-> pages,
     form |-> form, fields |-> fields, pageIndex |-> pageIndex, j |-> j,
     toRemove |-> toRemove, i |-> i, simpleFields |-> simpleFields,
     radioGroups |-> radioGroups, checkboxGroups |-> checkboxGroups,
     k |-> k, m |-> m, output |-> output, removed |-> removed]

\* A second call that entered addAcroFormFields with document d.
SecondCall(d) ==
    [id |-> 2, input |-> d, config |-> NoSelectOptions, pc |-> "load", pages |-> <<>>,
     form |-> NoForm, fields |-> <<>>, pageIndex |-> 0, j |-> 0,
     toRemove |-> <<>>, i |-> 0, simpleFields |-> <<>>,
     radioGroups |-> <<>>, checkboxGroups |-> <<>>,
     k |-> 1, m |-> 1, output |-> "none", removed |-> <<>>]

InitPair ==
    /\ InitPipeline(Docs(PairAnnots, FALSE), {NoSelectOptions})
    /\ other \in {SecondCall(d) : d \in SecondDocs}
    /\ NoRenderer
    /\ NoDesktop

\* The running call is at an await, or over.
atAwait == pc \in {"load", "save", "done", "rejected"}

\* A document and form that the two calls would have in common.
resumedDocumentShared(ctx) == [pages |-> pages, form |-> form]

\* Lines 171, 185: pdfDoc and its form are locals of the call, made from
\* the call's own buffer.
resumedDocument(ctx) == [pages |-> ctx.pages, form |-> ctx.form]

\* The running call is suspended at its await and the other one resumes.
Switch ==
    /\ other # NoCall
    /\ atAwait
    /\ other' = suspended(3 - other.id)
    /\ input' = other.input
    /\ config' = other.config
    /\ pc' = other.pc
    /\ pages' = resumedDocument(other).pages
    /\ form' = resumedDocument(other).form
    /\ fields' = other.fields
    /\ pageIndex' = other.pageIndex
    /\ j' = other.j
    /\ toRemove' = other.toRemove
    /\ i' = other.i
    /\ simpleFields' = other.simpleFields
    /\ radioGroups' = other.radioGroups
    /\ checkboxGroups' = other.checkboxGroups
    /\ k' = other.k
    /\ m' = other.m
    /\ output' = other.output
    /\ removed' = other.removed
    /\ UNCHANGED <<browserPromise, launches, calls, browser, browsers, tasks>>

NextPair == Next \/ Switch

SpecPair == InitPair /\ [][NextPair]_vars


\* ---- what a call yields when it runs alone, as a function of its input
RECURSIVE positionsFrom(_, _)
\* The positions extractAndRemoveMarkers returns for the pages from p on.
positionsFrom(pgs, p) ==
    IF p > Len(pgs) THEN <<>>
    ELSE LET IsMatch(a) == isMatch(a)
             matched == SelectSeq(pgs[p].annots, IsMatch)
         IN  [n \in DOMAIN matched |-> FieldPosition(matched[n], p - 1)]
                \o positionsFrom(pgs, p + 1)

\* The pages without their markers.
strippedPages(pgs) == [p \in DOMAIN pgs |-> [pgs[p] EXCEPT !.annots = SelectSeq(@, NotMatch)]]

RECURSIVE materialized(_, _)
\* The form and pages after the creation attempts atts, made in order.
materialized(atts, acc) ==
    IF atts = <<>> THEN acc
    ELSE materialized(Tail(atts),
            [form |-> tryAdd(acc.form, Head(atts)),
             pages |-> tryAttach(acc.form, acc.pages, Head(atts))])

\* The outcome of addAcroFormFields(inp, cfg) with nothing else running.
alone(inp, cfg) ==
    IF ~inp.ok THEN [pc |-> "rejected", output |-> "none", pages |-> <<>>, form |-> NoForm]
    ELSE LET pos == positionsFrom(inp.pages, 1)
             b == partition(pos, [simple |-> <<>>, radio |-> <<>>, checkbox |-> <<>>])
             atts == simpleAttempts(b.simple, cfg)
                        \o [n \in DOMAIN b.radio |-> radioField(b.radio[n])]
                        \o checkboxAttempts(b.checkbox)
             made == materialized(atts, [form |-> [NoForm EXCEPT !.created = TRUE],
                                         pages |-> strippedPages(inp.pages)])
         IN  IF pos = <<>>
             THEN [pc |-> "done", output |-> "bytes", pages |-> inp.pages, form |-> NoForm]
             ELSE [pc |-> "done", output |-> "bytes", pages |-> made.pages,
                   form |-> [made.form EXCEPT
                                !.fields = [q \in DOMAIN @ |-> normalized(@[q])]]]

outcome(ctx) == [pc |-> ctx.pc, output |-> ctx.output, pages |-> ctx.pages, form |-> ctx.form]

\* C22: whenever one of two calls in flight is over, the running one or the
\* suspended one, its outcome (returned or rejected, the pages and the form
\* saved) is the outcome of the same call on the same input run alone,
\* whatever the other call did in between; and a call's input is its own.
C22_Isolation ==
    /\ pc \in {"done", "rejected"} => outcome(suspended(0)) = alone(input, config)
    /\ (other # NoCall /\ other.pc \in {"done", "rejected"}) =>
          outcome(other) = alone(other.input, other.config)

\* C22 witness: the running call returned with the text field "s_k", made
\* from a document that also held the checkbox member of that field name,
\* while the other call, on another document, is suspended in save() with
\* its own field "s_k", a checkbox.
C22_Witness ==
    /\ other # NoCall
    /\ Done
    /\ Len(fields) = 2
    /\ Len(form.fields) = 1
    /\ form.fields[1].name = "s_k" /\ form.fields[1].kind = "text"
    /\ other.pc = "save"
    /\ other.input # input
    /\ Len(other.form.fields) = 1
    /\ other.form.fields[1].name = "s_k" /\ other.form.fields[1].kind = "checkbox"
====
